---- MODULE Spec2Model ----
(***************************************************************************)
(* Model of pyraknet's RakNet reliability layer: one RaknetConnection      *)
(* (pyraknet/transports/raknet/connection.py) with its RTO and congestion  *)
(* window calculators (calcs.py) and its ACK range list (_rangelist.py).   *)
(*                                                                         *)
(* Datagrams are modelled in decoded form (the fields the bit stream       *)
(* reader returns); payloads are sequences of byte values.  Time is the    *)
(* value of time.perf_counter() in milliseconds; a timer created by        *)
(* call_later carries the time it becomes due and may fire at any moment   *)
(* from then on.                                                           *)
(***************************************************************************)
EXTENDS Integers, Sequences, FiniteSets, TLC

(***************************************************************************)
(* Program constants.                                                      *)
(***************************************************************************)
MTU_SIZE == 1228
UDP_HEADER_SIZE == 28
RecentReliableSize == 20

Unreliable == 0
UnreliableSequenced == 1
Reliable == 2
ReliableOrdered == 3
ReliableSequenced == 4

DisconnectionNotification == 13
ConnectionLost == 18
InternalPing == 0
ConnectedPong == 3
ConnectionRequest == 4
OpenConnectionRequest == 9
NoFreeIncomingConnections == 12
ConnectionRequestAccepted == 14
NewIncomingConnection == 17
OpenConnectionReply == 19
UserPacket == 83
Messages == {InternalPing, ConnectedPong, ConnectionRequest, OpenConnectionRequest,
             NoFreeIncomingConnections, DisconnectionNotification,
             ConnectionRequestAccepted, NewIncomingConnection, ConnectionLost,
             OpenConnectionReply, 36, 37, 39, UserPacket}

\* The address of the peer of the connection, the address and the password
\* the Server was constructed with, and the clock at its construction.
Address == [ip |-> <<127, 0, 0, 1>>, port |-> 12345]
ServerAddress == [ip |-> <<127, 0, 0, 1>>, port |-> 1234]
IncomingPassword == <<116, 101>>
ServerStartTime == 0

SendAcksDelayMs == 30
CheckCloseDelayMs == 10000

(***************************************************************************)
(* Bounds of the model.                                                    *)
(***************************************************************************)
MaxArrivals == 4
MaxOrderIndex == 3
MaxSequencedIndex == 5
MaxReliableNumber == 21
MaxReliableArrivals == 24
MaxSplitSends == 2
MaxSendSteps == 3
MaxNow == 2000
MaxConnections == 2
MaxTransportSteps == 4
MaxAckNumber == 1
MaxAckSteps == 2
MaxAckNow == 45
MaxLifeSteps == 3
MaxLifeNow == 20000
MaxServerSteps == 3
MaxListValue == 5
MaxListSteps == 5
MaxExampleSteps == 8
MaxStreamWrites == 2
MaxStreamReads == 2
MaxReplicaSteps == 4
MaxCwndSteps == 3
MaxLossSteps == 1076
MaxRtoSteps == 3
MaxWindowSteps == 5
MaxMixedArrivals == 4
MaxReconnectSteps == 3

(***************************************************************************)
(* Exact rational arithmetic for the float fields (srtt, rtt_var, rto).    *)
(* A rational is <<n, d>> with d > 0 in lowest terms; <<1, 0>> is          *)
(* float("inf").                                                           *)
(***************************************************************************)
RECURSIVE Gcd(_, _)
Gcd(a, b) == IF b = 0 THEN a ELSE Gcd(b, a % b)

Abs(x) == IF x < 0 THEN -x ELSE x

Norm(n, d) ==
    IF d = 0 THEN <<1, 0>>
    ELSE LET g == Gcd(Abs(n), Abs(d))
             s == IF d < 0 THEN -1 ELSE 1
         IN <<s * (n \div g), s * (d \div g)>>

Rat(i) == <<i, 1>>
Inf == <<1, 0>>
RAdd(a, b) == IF a[2] = 0 \/ b[2] = 0 THEN Inf ELSE Norm(a[1] * b[2] + b[1] * a[2], a[2] * b[2])
RSub(a, b) == Norm(a[1] * b[2] - b[1] * a[2], a[2] * b[2])
RMul(a, b) == Norm(a[1] * b[1], a[2] * b[2])
RDiv(a, b) == IF b[2] = 0 THEN <<0, 1>> ELSE Norm(a[1] * b[2], a[2] * b[1])
RAbs(a) == <<Abs(a[1]), a[2]>>
RLess(a, b) == a[1] * b[2] < b[1] * a[2]
RLeq(a, b) == ~RLess(b, a)
RMax(a, b) == IF RLess(a, b) THEN b ELSE a

Min(a, b) == IF a < b THEN a ELSE b

(***************************************************************************)
(* The floats of CWNDCalc (cwnd, ssthresh), which are never negative:      *)
(* [frac, exp] is frac * 2^exp with the rational frac in [1, 2); zero and  *)
(* float("inf") have exp = 0.  A binary64 has multiples of 2^-1074 as its  *)
(* smallest values: a result below 2^-1054 is rounded to the nearest such  *)
(* multiple, ties to even, and so to zero from 2^-1075 down.  A larger     *)
(* result is held as the exact fraction.                                   *)
(***************************************************************************)
FZero == [frac |-> Rat(0), exp |-> 0]
FInf == [frac |-> Inf, exp |-> 0]

RECURSIVE FloatScale(_, _)
FloatScale(r, e) ==
    IF RLess(r, Rat(1)) THEN FloatScale(RMul(r, Rat(2)), e - 1)
    ELSE IF RLeq(Rat(2), r) THEN FloatScale(RDiv(r, Rat(2)), e + 1)
    ELSE [frac |-> r, exp |-> e]

RoundHalfEven(n, d) ==
    LET q == n \div d
        r == n % d
    IN  IF 2 * r < d THEN q
        ELSE IF 2 * r > d THEN q + 1
        ELSE IF q % 2 = 0 THEN q ELSE q + 1

FloatRound(f) ==
    IF f.exp >= -1054 THEN f
    ELSE IF f.exp < -1075 THEN FZero
    ELSE LET q == IF f.exp = -1075 THEN RoundHalfEven(f.frac[1], 2 * f.frac[2])
                  ELSE RoundHalfEven(f.frac[1] * (2 ^ (f.exp + 1074)), f.frac[2])
         IN  IF q = 0 THEN FZero ELSE FloatScale(Rat(q), -1074)

Float(r, e) ==
    IF r[2] = 0 THEN FInf
    ELSE IF r[1] = 0 THEN FZero
    ELSE FloatRound(FloatScale(r, e))

FloatOfInt(i) == Float(Rat(i), 0)

FloatLess(a, b) ==
    IF a = FInf \/ b = FZero THEN FALSE
    ELSE IF b = FInf \/ a = FZero THEN TRUE
    ELSE a.exp < b.exp \/ (a.exp = b.exp /\ RLess(a.frac, b.frac))

FloatLeq(a, b) == ~FloatLess(b, a)

\* a + b; an addend below a quarter of the last bit of the other is lost.
FloatAdd(a, b) ==
    IF a = FInf \/ b = FInf THEN FInf
    ELSE IF a = FZero THEN b
    ELSE IF b = FZero THEN a
    ELSE LET hi == IF a.exp >= b.exp THEN a ELSE b
             lo == IF a.exp >= b.exp THEN b ELSE a
         IN  IF hi.exp - lo.exp > 54 THEN hi
             ELSE Float(RAdd(RMul(hi.frac, Rat(2 ^ (hi.exp - lo.exp))), lo.frac), lo.exp)

\* a / b for b other than zero.
FloatDiv(a, b) ==
    IF a = FInf THEN FInf
    ELSE IF b = FInf \/ a = FZero THEN FZero
    ELSE Float(RDiv(a.frac, b.frac), a.exp - b.exp)

(***************************************************************************)
(* Optional values: None and Some(v).                                      *)
(***************************************************************************)
None == [some |-> FALSE, val |-> 0]
Some(v) == [some |-> TRUE, val |-> v]

NoData == [some |-> FALSE, val |-> <<>>]

NoSplit == [some |-> FALSE, id |-> 0, index |-> 0, count |-> 0]
SplitInfo(id, index, count) == [some |-> TRUE, id |-> id, index |-> index, count |-> count]

(***************************************************************************)
(* RangeList: a sequence of ranges [min, max], kept sorted by insert.      *)
(***************************************************************************)
Range(lo, hi) == [min |-> lo, max |-> hi]

InsertAt(s, i, e) == SubSeq(s, 1, i - 1) \o <<e>> \o SubSeq(s, i, Len(s))
RemoveAt(s, i) == SubSeq(s, 1, i - 1) \o SubSeq(s, i + 1, Len(s))

RECURSIVE RangeListInsertFrom(_, _, _)
RangeListInsertFrom(ranges, i, item) ==
    IF i > Len(ranges) THEN Append(ranges, Range(item, item))
    ELSE LET r == ranges[i] IN
        IF r.min = item + 1 THEN [ranges EXCEPT ![i].min = r.min - 1]
        ELSE IF r.min <= item THEN
            IF r.max = item - 1 THEN
                IF i < Len(ranges) /\ ranges[i + 1].min = item + 1
                THEN RemoveAt([ranges EXCEPT ![i].max = ranges[i + 1].max], i + 1)
                ELSE [ranges EXCEPT ![i].max = r.max + 1]
            ELSE IF r.max >= item THEN ranges
            ELSE RangeListInsertFrom(ranges, i + 1, item)
        ELSE InsertAt(ranges, i, Range(item, item))

\* The first range is passed over.
RangeListInsert_SkipsFirst(ranges, item) == RangeListInsertFrom(ranges, 2, item)

RangeListInsert(ranges, item) == RangeListInsertFrom(ranges, 1, item)

RangeListItems(ranges) ==
    UNION {r.min .. r.max : r \in {ranges[i] : i \in 1..Len(ranges)}}

RECURSIVE RangeListLenFrom(_, _)
RangeListLenFrom(ranges, i) ==
    IF i > Len(ranges) THEN 0
    ELSE (ranges[i].max - ranges[i].min + 1) + RangeListLenFrom(ranges, i + 1)

RangeListLen(ranges) == RangeListLenFrom(ranges, 1)

RangeListHoles(ranges) ==
    UNION {(ranges[i].max + 1) .. (ranges[i + 1].min - 1) : i \in 1..(Len(ranges) - 1)}

(***************************************************************************)
(* RaknetConnection._packet_header_length                                  *)
(***************************************************************************)
CeilDiv(a, b) == (a + b - 1) \div b

HasOrdering(reliability) == reliability \in {UnreliableSequenced, ReliableOrdered}
\* Only ReliableOrdered counts as reliable.
IsReliable_OrderedOnly(reliability) == reliability = ReliableOrdered

IsReliable(reliability) == reliability \in {Reliable, ReliableOrdered}

PacketHeaderBits(reliability, is_split_packet) ==
    32 + 3
    + (IF HasOrdering(reliability) THEN 5 + 32 ELSE 0)
    + 1
    + (IF is_split_packet THEN 16 + 32 + 32 ELSE 0)
    + 16

PacketHeaderLength(reliability, is_split_packet) ==
    CeilDiv(PacketHeaderBits(reliability, is_split_packet), 8)


(***************************************************************************)
(* calcs.py: RTOCalc.update and CWNDCalc.update                            *)
(***************************************************************************)
\* The timeout has no lower limit.
RTOCalcUpdate_NoFloor(calc, rtt) ==
    LET first == calc.srtt = Rat(-1)
        rtt_var == IF first THEN RDiv(rtt, Rat(2))
                   ELSE RAdd(RMul(<<3, 4>>, calc.rtt_var),
                             RMul(<<1, 4>>, RAbs(RSub(calc.srtt, rtt))))
        srtt == IF first THEN rtt
                ELSE RAdd(RMul(<<7, 8>>, calc.srtt), RMul(<<1, 8>>, rtt))
    IN [srtt |-> srtt, rtt_var |-> rtt_var, rto |-> RAdd(srtt, RMul(Rat(4), rtt_var))]

RTOCalcUpdate(calc, rtt) ==
    LET first == calc.srtt = Rat(-1)
        rtt_var == IF first THEN RDiv(rtt, Rat(2))
                   ELSE RAdd(RMul(<<3, 4>>, calc.rtt_var),
                             RMul(<<1, 4>>, RAbs(RSub(calc.srtt, rtt))))
        srtt == IF first THEN rtt
                ELSE RAdd(RMul(<<7, 8>>, calc.srtt), RMul(<<1, 8>>, rtt))
    IN [srtt |-> srtt, rtt_var |-> rtt_var,
        rto |-> RMax(Rat(1), RAdd(srtt, RMul(Rat(4), rtt_var)))]

\* num_acks/self._cwnd with a cwnd of 0.0 raises ZeroDivisionError.
CWNDCalcUpdateRaises(calc, sent, num_acks, num_holes) ==
    /\ ~(num_holes > 0)
    /\ FloatLeq(calc.cwnd, FloatOfInt(sent))
    /\ FloatLess(calc.ssthresh, FloatOfInt(num_acks))
    /\ calc.cwnd = FZero

CWNDCalcUpdate(calc, sent, num_acks, num_holes) ==
    IF num_holes > 0
    THEN [cwnd |-> FloatDiv(calc.cwnd, FloatOfInt(2)),
          ssthresh |-> FloatDiv(calc.cwnd, FloatOfInt(2))]
    ELSE IF CWNDCalcUpdateRaises(calc, sent, num_acks, num_holes) THEN calc
    ELSE IF FloatLeq(calc.cwnd, FloatOfInt(sent))
         THEN IF FloatLess(calc.ssthresh, FloatOfInt(num_acks))
              THEN [calc EXCEPT !.cwnd = FloatAdd(calc.cwnd,
                                                  FloatDiv(FloatOfInt(num_acks), calc.cwnd))]
              ELSE [calc EXCEPT !.cwnd = FloatAdd(calc.cwnd, FloatOfInt(num_acks))]
         ELSE calc

(***************************************************************************)
(* bitstream.py.  Bytes are sequences of 0..255.  A Python int that is     *)
(* packed or unpacked is held as its digits in base 65536, the least       *)
(* significant first: the values of c_uint and c_ulonglong do not fit the  *)
(* 32-bit integers of TLC.                                                 *)
(***************************************************************************)
c_ubyte == 1
c_ushort == 2
c_uint == 4
c_ulonglong == 8

Max(a, b) == IF a < b THEN b ELSE a
Pow2(n) == 2 ^ n
Zeros(n) == [i \in 1..n |-> 0]

RECURSIVE BitOrFrom(_, _, _)
BitOrFrom(a, b, n) ==
    IF n = 0 THEN 0
    ELSE (IF a % 2 = 1 \/ b % 2 = 1 THEN 1 ELSE 0) + 2 * BitOrFrom(a \div 2, b \div 2, n - 1)

BitOr(a, b) == BitOrFrom(a, b, 8)

\* data[lo:hi] and data[lo:hi] = b, with the bounds of a slice clipped to the data
Slice(data, lo, hi) == SubSeq(data, Min(lo, Len(data)) + 1, Min(hi, Len(data)))
SliceAssign(data, lo, hi, b) ==
    LET from == Min(lo, Len(data))
        to == Max(from, Min(hi, Len(data)))
    IN  SubSeq(data, 1, from) \o b \o SubSeq(data, to + 1, Len(data))

\* The digits of a small int, and the small int of digits.
Digits(size, v) ==
    [i \in 1..CeilDiv(size, 2) |-> IF i = 1 THEN v % 65536 ELSE IF i = 2 THEN v \div 65536 ELSE 0]
IntOf(digits) == digits[1] + (IF Len(digits) > 1 THEN 65536 * digits[2] ELSE 0)

\* _IntStruct("<B"), ("<H"), ("<I"), ("<Q"): pack and unpack, little endian
Pack(size, digits) ==
    [i \in 1..size |-> IF i % 2 = 1 THEN digits[(i + 1) \div 2] % 256
                       ELSE digits[i \div 2] \div 256]
Unpack(data) ==
    [i \in 1..CeilDiv(Len(data), 2) |->
        data[2 * i - 1] + 256 * (IF 2 * i <= Len(data) THEN data[2 * i] ELSE 0)]

\* (int.from_bytes(b, "big") << shift).to_bytes(len(b) + 1, "big"), 0 < shift < 8
ShiftLeftBytes(b, shift) ==
    [i \in 1..(Len(b) + 1) |->
        (IF i > 1 THEN (b[i - 1] * Pow2(shift)) % 256 ELSE 0)
        + (IF i <= Len(b) THEN b[i] \div Pow2(8 - shift) ELSE 0)]

\* (int.from_bytes(b, "big") >> shift).to_bytes(len(b) - 1, "big"), b[0] < 2 ** shift
ShiftRightBytes(b, shift) ==
    [i \in 1..(Len(b) - 1) |->
        (b[i] % Pow2(shift)) * Pow2(8 - shift) + b[i + 1] \div Pow2(shift)]

NewWriteStream == [data |-> <<>>, write_offset |-> 0]

AllocBits(w, number_of_bits) ==
    LET bytes_to_allocate == CeilDiv(w.write_offset + number_of_bits, 8) - Len(w.data)
    IN  IF bytes_to_allocate > 0
        THEN [w EXCEPT !.data = w.data \o Zeros(bytes_to_allocate)]
        ELSE w

WriteBit(w0, bit) ==
    LET w == AllocBits(w0, 1)
        i == w.write_offset \div 8 + 1
        data == IF bit
                THEN [w.data EXCEPT ![i] = BitOr(w.data[i], 128 \div Pow2(w.write_offset % 8))]
                ELSE w.data
    IN  [data |-> data, write_offset |-> w.write_offset + 1]

\* write_bits, 0 < number_of_bits < 8
WriteBits(w0, value0, number_of_bits) ==
    LET w == AllocBits(w0, number_of_bits)
        i == w.write_offset \div 8 + 1
        shift == w.write_offset % 8
        value == (value0 * Pow2(8 - number_of_bits)) % 256
        first == IF shift = 0 THEN [w.data EXCEPT ![i] = value]
                 ELSE [w.data EXCEPT ![i] = BitOr(w.data[i], value \div Pow2(shift))]
        data == IF shift # 0 /\ 8 - shift < number_of_bits
                THEN [first EXCEPT ![i + 1] = (value * Pow2(8 - shift)) % 256]
                ELSE first
    IN  [data |-> data, write_offset |-> w.write_offset + number_of_bits]

WriteBytes(w, byte_arg) ==
    LET at == w.write_offset \div 8
        shift == w.write_offset % 8
        new == ShiftLeftBytes(byte_arg, 8 - shift)
        current == [w.data EXCEPT ![at + 1] = BitOr(w.data[at + 1], new[1])]
        data == IF shift = 0
                THEN SliceAssign(w.data, at, at + Len(byte_arg), byte_arg)
                ELSE SliceAssign(current, at + 1, at + 1 + Len(byte_arg), Tail(new))
    IN  [data |-> data, write_offset |-> w.write_offset + Len(byte_arg) * 8]

RECURSIVE WriteCompressedFrom(_, _, _)
WriteCompressedFrom(w, byte_arg, current_byte) ==
    IF current_byte > 0
    THEN LET is_zero == byte_arg[current_byte + 1] = 0
             bit == WriteBit(w, is_zero)
         IN  IF ~is_zero
             THEN WriteBytes(bit, SubSeq(byte_arg, 1, current_byte + 1))
             ELSE WriteCompressedFrom(bit, byte_arg, current_byte - 1)
    ELSE LET is_zero == byte_arg[1] \div 16 = 0
             bit == WriteBit(w, is_zero)
         IN  IF is_zero
             THEN WriteBits(bit, byte_arg[1], 4)
             ELSE WriteBytes(bit, SubSeq(byte_arg, 1, 1))

WriteCompressed(w, byte_arg) == WriteCompressedFrom(w, byte_arg, Len(byte_arg) - 1)

\* ReadStream(data); a read gives the stream after it, the value, and the
\* name of the exception that left it, if any.
NewReadStream(data) == [some |-> TRUE, data |-> data, read_offset |-> 0]
ReadOk(r, offset, value) ==
    [stream |-> [r EXCEPT !.read_offset = offset], value |-> value, err |-> ""]
ReadErr(r, err) == [stream |-> r, value |-> <<>>, err |-> err]

ReadBit(r) ==
    LET i == r.read_offset \div 8
    IN  IF i >= Len(r.data) THEN ReadErr(r, "IndexError")
        ELSE ReadOk(r, r.read_offset + 1,
                    (r.data[i + 1] \div Pow2(7 - (r.read_offset % 8))) % 2 = 1)

\* read_bits, 0 < number_of_bits < 8
ReadBits(r, number_of_bits) ==
    LET i == r.read_offset \div 8
        shift == r.read_offset % 8
        second == shift # 0 /\ number_of_bits > 8 - shift
    IN  IF i >= Len(r.data) \/ (second /\ i + 1 >= Len(r.data))
        THEN ReadErr(r, "IndexError")
        ELSE LET first == (r.data[i + 1] * Pow2(shift)) % 256
                 output == IF second
                           THEN BitOr(first, r.data[i + 2] \div Pow2(8 - shift))
                           ELSE first
             IN  ReadOk(r, r.read_offset + number_of_bits,
                        output \div Pow2(8 - number_of_bits))

ReadBytes(r, length) ==
    LET at == r.read_offset \div 8
        shift == r.read_offset % 8
        num_bytes_read == IF shift = 0 THEN length ELSE length + 1
    IN  IF Len(r.data) - at < num_bytes_read THEN ReadErr(r, "EOFError")
        ELSE IF shift = 0
        THEN ReadOk(r, r.read_offset + length * 8, Slice(r.data, at, at + num_bytes_read))
        ELSE LET firstbyte == r.data[at + 1] % Pow2(8 - shift)
                 output == <<firstbyte>> \o Slice(r.data, at + 1, at + num_bytes_read)
             IN  ReadOk(r, r.read_offset + length * 8, ShiftRightBytes(output, 8 - shift))

\* read(arg_type) of an _IntStruct
ReadInt(r, size) ==
    LET read == ReadBytes(r, size)
    IN  IF read.err # "" THEN read ELSE [read EXCEPT !.value = Unpack(read.value)]

RECURSIVE ReadCompressedFrom(_, _, _)
ReadCompressedFrom(r, number_of_bytes, current_byte) ==
    LET bit == ReadBit(r)
    IN  IF bit.err # "" THEN bit
        ELSE IF current_byte > 0
        THEN IF bit.value
             THEN ReadCompressedFrom(bit.stream, number_of_bytes, current_byte - 1)
             ELSE LET rest == ReadBytes(bit.stream, current_byte + 1)
                  IN  IF rest.err # "" THEN rest
                      ELSE [rest EXCEPT !.value =
                                Unpack(Zeros(number_of_bytes - current_byte - 1) \o rest.value)]
        ELSE LET start == IF bit.value THEN ReadBits(bit.stream, 4)
                          ELSE ReadBytes(bit.stream, 1)
             IN  IF start.err # "" THEN start
                 ELSE [start EXCEPT !.value =
                           Unpack((IF bit.value THEN <<start.value>> ELSE start.value)
                                  \o Zeros(number_of_bytes - current_byte - 1))]

ReadCompressed(r, number_of_bytes) ==
    ReadCompressedFrom(r, number_of_bytes, number_of_bytes - 1)

(***************************************************************************)
(* RangeList: what is observed of a list, and its serialization.           *)
(***************************************************************************)
\* range(lo, hi + 1)
UpTo(lo, hi) == [i \in 1..(hi - lo + 1) |-> lo + i - 1]

RangeListBool(ranges) == Len(ranges) > 0

RECURSIVE RangeListIterFrom(_, _)
RangeListIterFrom(ranges, i) ==
    IF i > Len(ranges) THEN <<>>
    ELSE UpTo(ranges[i].min, ranges[i].max) \o RangeListIterFrom(ranges, i + 1)

RangeListIter(ranges) == RangeListIterFrom(ranges, 1)

\* The list holds the item the other way round.
RangeListContains_Outside(ranges, item) ==
    \A i \in 1..Len(ranges) : item < ranges[i].min \/ ranges[i].max < item

RangeListContains(ranges, item) ==
    \E i \in 1..Len(ranges) : ranges[i].min <= item /\ item <= ranges[i].max

RangeListClear(ranges) == <<>>

RECURSIVE RangeListHolesIterFrom(_, _)
RangeListHolesIterFrom(ranges, i) ==
    IF i > Len(ranges) THEN <<>>
    ELSE (IF i > 1 THEN UpTo(ranges[i - 1].max + 1, ranges[i].min - 1) ELSE <<>>)
         \o RangeListHolesIterFrom(ranges, i + 1)

RangeListHolesIter(ranges) == RangeListHolesIterFrom(ranges, 1)

RECURSIVE RangeListNumHolesFrom(_, _)
RangeListNumHolesFrom(ranges, i) ==
    IF i > Len(ranges) THEN 0
    ELSE (IF i > 1 THEN ranges[i].min - ranges[i - 1].max - 1 ELSE 0)
         + RangeListNumHolesFrom(ranges, i + 1)

\* The gaps are counted, not the values in them.
RangeListNumHoles_CountsGaps(ranges) == Max(Len(ranges) - 1, 0)

RangeListNumHoles(ranges) == RangeListNumHolesFrom(ranges, 1)

RECURSIVE RangeListSerializeFrom(_, _, _)
RangeListSerializeFrom(w, ranges, i) ==
    IF i > Len(ranges) THEN w
    ELSE LET range == ranges[i]
             bit == WriteBit(w, range.min = range.max)
             min == WriteBytes(bit, Pack(c_uint, Digits(c_uint, range.min)))
             max == IF range.min # range.max
                    THEN WriteBytes(min, Pack(c_uint, Digits(c_uint, range.max)))
                    ELSE min
         IN  RangeListSerializeFrom(max, ranges, i + 1)

\* The count is written as a plain c_ushort.
RangeListSerialize_PlainCount(w, ranges) ==
    RangeListSerializeFrom(WriteBytes(w, Pack(c_ushort, Digits(c_ushort, Len(ranges)))),
                           ranges, 1)

RangeListSerialize(w, ranges) ==
    RangeListSerializeFrom(WriteCompressed(w, Pack(c_ushort, Digits(c_ushort, Len(ranges)))),
                           ranges, 1)

\* The ranges read so far are the value; an exception leaves with its name.
RECURSIVE RangeListDeserializeFrom(_, _, _)
RangeListDeserializeFrom(r, ranges, count) ==
    IF count = 0 THEN ReadOk(r, r.read_offset, ranges)
    ELSE LET max_equal_to_min == ReadBit(r)
         IN  IF max_equal_to_min.err # "" THEN max_equal_to_min
             ELSE LET min == ReadInt(max_equal_to_min.stream, c_uint)
                  IN  IF min.err # "" THEN min
                      ELSE LET max == IF max_equal_to_min.value THEN min
                                      ELSE ReadInt(min.stream, c_uint)
                           IN  IF max.err # "" THEN max
                               ELSE RangeListDeserializeFrom(
                                        max.stream,
                                        Append(ranges, Range(IntOf(min.value), IntOf(max.value))),
                                        count - 1)

RangeListDeserialize(r) ==
    LET count == ReadCompressed(r, c_ushort)
    IN  IF count.err # "" THEN count
        ELSE RangeListDeserializeFrom(count.stream, <<>>, IntOf(count.value))

(***************************************************************************)
(* Python dicts as functions with a finite domain.                         *)
(***************************************************************************)
EmptyDict == <<>>
DictSet(f, k, v) == [x \in (DOMAIN f) \cup {k} |-> IF x = k THEN v ELSE f[x]]
DictDel(f, k) == [x \in (DOMAIN f) \ {k} |-> f[x]]
DictDelAll(f, ks) == [x \in (DOMAIN f) \ ks |-> f[x]]

(***************************************************************************)
(* State of the RaknetConnection of the address Address, of the map of     *)
(* RaknetTransport, of the clock, and the record of what the handlers did. *)
(***************************************************************************)
VARIABLES
    now,                    \* time.perf_counter(), in milliseconds
    connected,              \* RaknetTransport._connections[Address] is this connection
    others,                 \* the addresses mapped to any other connection object
    start_time,
    last_ack_time,
    check_close_timer,      \* the pending call_later(10, _check_close), if any
    check_close_handle,     \* _check_close_handle is not None
    split_packet_id,
    remote_system_time,
    acks,
    send_acks_handle,
    rto_calc,
    cwnd_calc,
    packets_sent,
    send_message_number_index,
    sequenced_write_index,
    sequenced_read_index,
    ordered_write_index,
    ordered_read_index,
    last_rel_received,
    out_of_order_packets,
    split_packet_queue,
    sends,
    resends,                \* message number -> handle of its retransmission timer
    resend_timers,          \* the retransmission timers that are scheduled
    delivered,              \* payloads dispatched as ConnectionEvent.Receive, in order
    close_events,           \* number of ConnectionEvent.Close dispatched
    tx_count,               \* message number -> datagrams handed to sendto with it
    acked,                  \* message numbers an ACK has removed from resends
    last,                   \* the handler that ran last, its input and its outputs
    steps,                  \* number of inputs taken from the environment
    range_list,             \* RangeList._ranges of the list under test
    inserted,               \* the values inserted into it since construction or clear()
    wstream,                \* the WriteStream under test
    rstream,                \* the ReadStream made of bytes(wstream), once there is one
    written,                \* what was written to wstream, with the offsets before and after
    read_log,               \* what was read from rstream, with the offsets and the result
    participants,           \* ReplicaManager._participants
    network_ids,            \* ReplicaManager._network_ids
    current_network_id,     \* ReplicaManager._current_network_id
    constructed,            \* the replicas construct registered and destruct has not removed
    closed_participants     \* connections whose Close event came after they were last added

timeVars == <<now, start_time, last_ack_time, check_close_timer, check_close_handle>>
recvVars == <<remote_system_time, acks, send_acks_handle, sequenced_read_index,
              ordered_read_index, last_rel_received, out_of_order_packets,
              split_packet_queue>>
sendVars == <<split_packet_id, rto_calc, cwnd_calc, packets_sent,
              send_message_number_index, sequenced_write_index,
              ordered_write_index, sends, resends, resend_timers>>
logVars == <<connected, others, delivered, close_events, tx_count, acked, last, steps>>
listVars == <<range_list, inserted>>
streamVars == <<wstream, rstream, written, read_log>>
replicaVars == <<participants, network_ids, current_network_id, constructed,
                 closed_participants>>
connVars == <<timeVars, recvVars, sendVars, connected, others, delivered, close_events,
              tx_count, acked>>
vars == <<timeVars, recvVars, sendVars, logVars, listVars, streamVars, replicaVars>>

\* What one handler did: the Receive events (recv), the payloads that
\* reached the duplicate and ordering checks (passed), the datagrams handed
\* to transport.sendto by the connection (sent), the calls of _schedule_send
\* (sched), the Send events (send_events), the raw datagrams sent by the
\* transport (replies), the Close events (closes), and whether an exception
\* left the handler (raised).
NoOutput == [recv |-> <<>>, passed |-> <<>>, sent |-> <<>>, sched |-> <<>>,
             send_events |-> <<>>, replies |-> <<>>, closes |-> 0, raised |-> FALSE]

Init ==
    /\ now = 0
    /\ connected = TRUE
    /\ others = {}
    /\ start_time = 0
    /\ last_ack_time = 0
    /\ check_close_timer = Some(CheckCloseDelayMs)
    /\ check_close_handle = FALSE
    /\ split_packet_id = 0
    /\ remote_system_time = 0
    /\ acks = <<>>
    /\ send_acks_handle = None
    /\ rto_calc = [srtt |-> Rat(-1), rtt_var |-> Rat(-1), rto |-> Rat(1)]
    /\ cwnd_calc = [cwnd |-> FloatOfInt(1), ssthresh |-> FInf]
    /\ packets_sent = 0
    /\ send_message_number_index = 0
    /\ sequenced_write_index = 0
    /\ sequenced_read_index = 0
    /\ ordered_write_index = 0
    /\ ordered_read_index = 0
    /\ last_rel_received = [i \in 1..RecentReliableSize |-> -1]
    /\ out_of_order_packets = EmptyDict
    /\ split_packet_queue = EmptyDict
    /\ sends = <<>>
    /\ resends = EmptyDict
    /\ resend_timers = {}
    /\ delivered = <<>>
    /\ close_events = 0
    /\ tx_count = EmptyDict
    /\ acked = {}
    /\ last = [op |-> "init", arg |-> <<>>, out |-> NoOutput]
    /\ steps = 0
    /\ range_list = <<>>
    /\ inserted = {}
    /\ wstream = [data |-> <<>>, write_offset |-> 0]
    /\ rstream = [some |-> FALSE, data |-> <<>>, read_offset |-> 0]
    /\ written = <<>>
    /\ read_log = <<>>
    /\ participants = {}
    /\ network_ids = <<>>
    /\ current_network_id = 0
    /\ constructed = {}
    /\ closed_participants = {}

(***************************************************************************)
(* A handler is a function of the record st of the fields of the           *)
(* connection and of the transport's map, with the outputs of the handler  *)
(* so far; a handler that is left by an exception sets st.raised: what was *)
(* done before it stays done, nothing after it happens.  An action runs a  *)
(* handler on State and stores its result with Commit.                     *)
(***************************************************************************)
State ==
    [start_time |-> start_time, last_ack_time |-> last_ack_time,
     check_close_timer |-> check_close_timer, check_close_handle |-> check_close_handle,
     split_packet_id |-> split_packet_id, remote_system_time |-> remote_system_time,
     acks |-> acks, send_acks_handle |-> send_acks_handle,
     rto_calc |-> rto_calc, cwnd_calc |-> cwnd_calc, packets_sent |-> packets_sent,
     send_message_number_index |-> send_message_number_index,
     sequenced_write_index |-> sequenced_write_index,
     sequenced_read_index |-> sequenced_read_index,
     ordered_write_index |-> ordered_write_index,
     ordered_read_index |-> ordered_read_index,
     last_rel_received |-> last_rel_received,
     out_of_order_packets |-> out_of_order_packets,
     split_packet_queue |-> split_packet_queue,
     sends |-> sends, resends |-> resends, resend_timers |-> resend_timers,
     connected |-> connected, others |-> others,
     tx_count |-> tx_count, acked |-> acked,
     recv |-> <<>>, passed |-> <<>>, sent |-> <<>>, sched |-> <<>>,
     send_events |-> <<>>, replies |-> <<>>, closes |-> 0, raised |-> FALSE]

Commit(st, op, arg) ==
    /\ start_time' = st.start_time
    /\ last_ack_time' = st.last_ack_time
    /\ check_close_timer' = st.check_close_timer
    /\ check_close_handle' = st.check_close_handle
    /\ split_packet_id' = st.split_packet_id
    /\ remote_system_time' = st.remote_system_time
    /\ acks' = st.acks
    /\ send_acks_handle' = st.send_acks_handle
    /\ rto_calc' = st.rto_calc
    /\ cwnd_calc' = st.cwnd_calc
    /\ packets_sent' = st.packets_sent
    /\ send_message_number_index' = st.send_message_number_index
    /\ sequenced_write_index' = st.sequenced_write_index
    /\ sequenced_read_index' = st.sequenced_read_index
    /\ ordered_write_index' = st.ordered_write_index
    /\ ordered_read_index' = st.ordered_read_index
    /\ last_rel_received' = st.last_rel_received
    /\ out_of_order_packets' = st.out_of_order_packets
    /\ split_packet_queue' = st.split_packet_queue
    /\ sends' = st.sends
    /\ resends' = st.resends
    /\ resend_timers' = st.resend_timers
    /\ connected' = st.connected
    /\ others' = st.others
    /\ tx_count' = st.tx_count
    /\ acked' = st.acked
    /\ delivered' = delivered \o st.recv
    /\ close_events' = close_events + st.closes
    /\ last' = [op |-> op, arg |-> arg,
                out |-> [recv |-> st.recv, passed |-> st.passed, sent |-> st.sent,
                         sched |-> st.sched, send_events |-> st.send_events,
                         replies |-> st.replies, closes |-> st.closes,
                         raised |-> st.raised]]
    /\ UNCHANGED <<listVars, streamVars, replicaVars>>

(***************************************************************************)
(* Send path: Connection.send, _send, _schedule_send and _send_packet.     *)
(***************************************************************************)
Packet(message_number, reliability, ordering_index, split, data) ==
    [message_number |-> message_number, reliability |-> reliability,
     ordering_index |-> ordering_index, split |-> split, data |-> data]

\* A datagram as the fields its reader finds: the header and the packets.
Datagram(has_acks, old_time, ack_ranges, ack_only, has_time, time, packets) ==
    [has_acks |-> has_acks, old_time |-> old_time, acks |-> ack_ranges,
     ack_only |-> ack_only, has_remote_system_time |-> has_time,
     remote_system_time |-> time, packets |-> packets]

PacketDatagram(packets) == Datagram(FALSE, 0, <<>>, FALSE, TRUE, 0, packets)
AcksDatagram(old_time, ack_ranges) == Datagram(TRUE, old_time, ack_ranges, TRUE, FALSE, 0, <<>>)

\* The list is left as it was.
ClearAcks_Kept(ranges) == ranges

\* self._acks.clear()
ClearAcks(ranges) == <<>>

\* _send_packet: one datagram, with the pending ACKs piggy-backed.
SendPacket(ss, pkt, t) ==
    LET has_acks == Len(ss.acks) > 0
        dgram == Datagram(has_acks, IF has_acks THEN ss.remote_system_time ELSE 0,
                          ss.acks, FALSE, TRUE, t - ss.start_time, <<pkt>>)
        mn == pkt.message_number
    IN  [ss EXCEPT !.acks = IF has_acks THEN ClearAcks(ss.acks) ELSE ss.acks,
                   !.sent = Append(ss.sent, dgram),
                   !.tx_count = DictSet(ss.tx_count, mn,
                        IF mn \in DOMAIN ss.tx_count THEN ss.tx_count[mn] + 1 ELSE 1)]

\* A retransmission timer: call_later(rto, _schedule_send, packet).
ResendHandle(ss, pkt, t) ==
    [due |-> RAdd(Rat(t), RMul(ss.rto_calc.rto, Rat(1000))), delay |-> ss.rto_calc.rto,
     packet |-> pkt]

\* The window lets one packet more through than cwnd.
ScheduleSend_GateLate(ss, pkt, t) ==
    LET ss1 == IF IsReliable(pkt.reliability)
               THEN [ss EXCEPT !.sched = Append(ss.sched, pkt),
                               !.resends = DictSet(ss.resends, pkt.message_number,
                                                   ResendHandle(ss, pkt, t)),
                               !.resend_timers = ss.resend_timers \cup {ResendHandle(ss, pkt, t)}]
               ELSE [ss EXCEPT !.sched = Append(ss.sched, pkt)]
    IN  IF FloatLess(ss1.cwnd_calc.cwnd, FloatOfInt(ss1.packets_sent)) THEN ss1
        ELSE SendPacket([ss1 EXCEPT !.packets_sent = ss1.packets_sent + 1], pkt, t)

ScheduleSend(ss, pkt, t) ==
    LET ss1 == IF IsReliable(pkt.reliability)
               THEN [ss EXCEPT !.sched = Append(ss.sched, pkt),
                               !.resends = DictSet(ss.resends, pkt.message_number,
                                                   ResendHandle(ss, pkt, t)),
                               !.resend_timers = ss.resend_timers \cup {ResendHandle(ss, pkt, t)}]
               ELSE [ss EXCEPT !.sched = Append(ss.sched, pkt)]
    IN  IF FloatLeq(ss1.cwnd_calc.cwnd, FloatOfInt(ss1.packets_sent)) THEN ss1
        ELSE SendPacket([ss1 EXCEPT !.packets_sent = ss1.packets_sent + 1], pkt, t)

\* while data_offset < len(data): chunks.append(data[data_offset:data_offset+data_length])
RECURSIVE Chunks(_, _, _)
Chunks(data, data_offset, data_length) ==
    IF data_offset >= Len(data) THEN <<>>
    ELSE <<SubSeq(data, data_offset + 1, Min(data_offset + data_length, Len(data)))>>
         \o Chunks(data, data_offset + data_length, data_length)

MustSplit(data, reliability) ==
    PacketHeaderLength(reliability, FALSE) + Len(data) >= MTU_SIZE - UDP_HEADER_SIZE

\* The chunk length taken from the header of a packet that is not split.
SplitDataLength_UnsplitHeader(reliability) ==
    MTU_SIZE - UDP_HEADER_SIZE - PacketHeaderLength(reliability, FALSE)

SplitDataLength(reliability) ==
    MTU_SIZE - UDP_HEADER_SIZE - PacketHeaderLength(reliability, TRUE)

\* for split_packet_index, chunk in enumerate(chunks): ... _schedule_send(...)
RECURSIVE ScheduleChunks(_, _, _, _, _, _, _, _)
ScheduleChunks(ss, chunks, i, first_number, reliability, ordering_index, id, t) ==
    IF i > Len(chunks) THEN ss
    ELSE ScheduleChunks(
            ScheduleSend(ss, Packet(first_number + i - 1, reliability, ordering_index,
                                    SplitInfo(id, i - 1, Len(chunks)), chunks[i]), t),
            chunks, i + 1, first_number, reliability, ordering_index, id, t)

\* Connection.send (abc.py): the Send event, then RaknetConnection._send.
ConnectionSend(ss, data, reliability, t) ==
    LET ordering_index ==
            IF reliability = UnreliableSequenced THEN Some(ss.sequenced_write_index)
            ELSE IF reliability = ReliableOrdered THEN Some(ss.ordered_write_index)
            ELSE None
        chunks == Chunks(data, 0, SplitDataLength(reliability))
        ss1 == [ss EXCEPT !.send_events = Append(ss.send_events, data),
                          !.sequenced_write_index =
                              IF reliability = UnreliableSequenced THEN @ + 1 ELSE @,
                          !.ordered_write_index =
                              IF reliability = ReliableOrdered THEN @ + 1 ELSE @]
    IN  IF MustSplit(data, reliability)
        THEN ScheduleChunks([ss1 EXCEPT !.split_packet_id = @ + 1,
                                        !.send_message_number_index = @ + Len(chunks)],
                            chunks, 1, ss.send_message_number_index, reliability,
                            ordering_index, ss.split_packet_id, t)
        ELSE ScheduleSend([ss1 EXCEPT !.send_message_number_index = @ + 1],
                          Packet(ss.send_message_number_index, reliability,
                                 ordering_index, NoSplit, data), t)

(***************************************************************************)
(* RaknetConnection.close, with RaknetTransport._on_close_conn as the      *)
(* listener of the Close event: del self._connections[conn.get_address()]  *)
(* removes whatever connection the map holds for the address and raises    *)
(* KeyError if it holds none.                                              *)
(***************************************************************************)
Close(st) ==
    IF st.connected
    THEN [st EXCEPT !.closes = st.closes + 1,
                    !.connected = FALSE,
                    !.check_close_timer =
                        IF st.check_close_handle THEN None ELSE st.check_close_timer]
    ELSE IF Address \in st.others
    THEN [st EXCEPT !.closes = st.closes + 1,
                    !.others = st.others \ {Address},
                    !.check_close_timer =
                        IF st.check_close_handle THEN None ELSE st.check_close_timer]
    ELSE [st EXCEPT !.closes = st.closes + 1, !.raised = TRUE]

(***************************************************************************)
(* The listeners of the Receive event: PacketLogger (no state) and         *)
(* Server._on_packet, which dispatches on the message id.                  *)
(***************************************************************************)
UShortLE(v) == <<v % 256, v \div 256>>
UIntLE(v) == <<v % 256, (v \div 256) % 256, (v \div 65536) % 256, (v \div 16777216) % 256>>

\* The response of Server._on_connection_request.
ConnectionRequestAcceptedPayload ==
    <<ConnectionRequestAccepted>> \o Address.ip \o UShortLE(Address.port) \o <<0, 0>>
        \o ServerAddress.ip \o UShortLE(ServerAddress.port)

\* Any password is accepted.
PasswordMatches_Always(packet_password) == TRUE

\* packet_password == self._incoming_password
PasswordMatches(packet_password) == packet_password = IncomingPassword

\* Server._on_connection_request
OnConnectionRequest(st, packet_password, t) ==
    IF PasswordMatches(packet_password)
    THEN ConnectionSend(st, ConnectionRequestAcceptedPayload, Reliable, t)
    ELSE [Close(st) EXCEPT !.raised = TRUE]

\* Server._on_internal_ping
OnInternalPing(st, data, t) ==
    IF Len(data) < 4 THEN [st EXCEPT !.raised = TRUE]
    ELSE ConnectionSend(st, <<ConnectedPong>> \o SubSeq(data, 1, 4) \o UIntLE(t - ServerStartTime),
                        ReliableOrdered, t)

\* Server._on_packet
OnPacket(st, data, t) ==
    IF data[1] \notin Messages THEN [st EXCEPT !.raised = TRUE]
    ELSE IF data[1] = ConnectionRequest THEN OnConnectionRequest(st, Tail(data), t)
    ELSE IF data[1] = InternalPing THEN OnInternalPing(st, Tail(data), t)
    ELSE st

(***************************************************************************)
(* Receive path.  handle_datagram pulls payloads out of the generator      *)
(* _parse_packets one at a time and dispatches each before the generator   *)
(* runs on, so parsing and dispatching are one fold over st.               *)
(***************************************************************************)
\* Only the notification closes.
IsCloseMessage_NotificationOnly(id) == id = DisconnectionNotification

\* packet[0] in (Message.DisconnectionNotification.value, Message.ConnectionLost.value)
IsCloseMessage(id) == id \in {DisconnectionNotification, ConnectionLost}

\* The body of the loop of handle_datagram for one payload of the generator.
DispatchPacket(st, packet, t) ==
    IF Len(packet) = 0 THEN [st EXCEPT !.raised = TRUE]
    ELSE IF IsCloseMessage(packet[1]) THEN Close(st)
    ELSE OnPacket([st EXCEPT !.recv = Append(st.recv, packet)], packet, t)

\* The parts joined from the last one to the first.
RECURSIVE JoinParts_Reversed(_, _)
JoinParts_Reversed(parts, i) ==
    IF i > Len(parts) THEN <<>> ELSE JoinParts_Reversed(parts, i + 1) \o parts[i].val

\* b"".join(self._split_packet_queue[split_packet_id])
RECURSIVE JoinParts(_, _)
JoinParts(parts, i) ==
    IF i > Len(parts) THEN <<>> ELSE parts[i].val \o JoinParts(parts, i + 1)

\* The read index stays where it is while buffered packets are released.
RECURSIVE ReleaseOrdered_IndexKept(_, _, _)
ReleaseOrdered_IndexKept(st, ord, t) ==
    IF st.raised \/ ord \notin DOMAIN st.out_of_order_packets THEN st
    ELSE ReleaseOrdered_IndexKept(
            DispatchPacket(
                [st EXCEPT !.out_of_order_packets = DictDel(st.out_of_order_packets, ord)],
                st.out_of_order_packets[ord], t),
            ord + 1, t)

\* while ord in self._out_of_order_packets: ... yield pop(ord)
RECURSIVE ReleaseOrdered(_, _, _)
ReleaseOrdered(st, ord, t) ==
    IF st.raised \/ ord \notin DOMAIN st.out_of_order_packets THEN st
    ELSE ReleaseOrdered(
            DispatchPacket(
                [st EXCEPT !.ordered_read_index = st.ordered_read_index + 1,
                           !.out_of_order_packets = DictDel(st.out_of_order_packets, ord)],
                st.out_of_order_packets[ord], t),
            ord + 1, t)

\* message_number in self._last_rel_received
InLastRelReceived(message_number, ring) ==
    message_number \in {ring[i] : i \in 1..Len(ring)}

\* The newest number gives way instead of the oldest.
PushLastRelReceived_DropsNewest(ring, message_number) ==
    Append(SubSeq(ring, 1, Len(ring) - 1), message_number)

\* del self._last_rel_received[0]; self._last_rel_received.append(message_number)
PushLastRelReceived(ring, message_number) == Append(Tail(ring), message_number)

\* The comparison made strict.
SequencedIsNew_Strict(ordering_index, read_index) == ordering_index > read_index

\* ordering_index >= self._sequenced_read_index
SequencedIsNew(ordering_index, read_index) == ordering_index >= read_index

\* Lines 204-235: duplicate checks and ordering, for the payload packet_data.
FilterPacket(st0, p, packet_data, t) ==
    LET st == [st0 EXCEPT !.passed = Append(st0.passed, packet_data)] IN
    IF p.reliability = Reliable /\ InLastRelReceived(p.message_number, st.last_rel_received)
    THEN st
    ELSE
    LET st1 == IF p.reliability = Reliable
               THEN [st EXCEPT !.last_rel_received = PushLastRelReceived(st.last_rel_received, p.message_number)]
               ELSE st
    IN  IF p.reliability = UnreliableSequenced THEN
            IF SequencedIsNew(p.ordering_index.val, st1.sequenced_read_index)
            THEN DispatchPacket([st1 EXCEPT !.sequenced_read_index = p.ordering_index.val + 1],
                                packet_data, t)
            ELSE st1
        ELSE IF p.reliability = ReliableOrdered THEN
            IF p.ordering_index.val = st1.ordered_read_index THEN
                LET st2 == ReleaseOrdered([st1 EXCEPT !.ordered_read_index = st1.ordered_read_index + 1],
                                          p.ordering_index.val + 1, t)
                IN IF st2.raised THEN st2 ELSE DispatchPacket(st2, packet_data, t)
            ELSE IF p.ordering_index.val < st1.ordered_read_index THEN st1
            ELSE DispatchPacket(
                    [st1 EXCEPT !.out_of_order_packets =
                        DictSet(st1.out_of_order_packets, p.ordering_index.val, packet_data)],
                    packet_data, t)
        ELSE DispatchPacket(st1, packet_data, t)

\* Lines 151-188: the reliability read from the wire (ValueError for a value
\* outside the enum, AssertionError for ReliableSequenced), ACK bookkeeping
\* and split packet reassembly, then the filter.
ParsePacket(st, p, t) ==
    IF p.reliability \notin {Unreliable, UnreliableSequenced, Reliable, ReliableOrdered}
    THEN [st EXCEPT !.raised = TRUE]
    ELSE
    LET st1 == IF IsReliable(p.reliability)
               THEN [st EXCEPT !.acks = RangeListInsert(st.acks, p.message_number),
                               !.send_acks_handle =
                                   IF st.send_acks_handle.some THEN st.send_acks_handle
                                   ELSE Some(t + SendAcksDelayMs)]
               ELSE st
    IN  IF ~p.split.some THEN FilterPacket(st1, p, p.data, t)
        ELSE
        LET id == p.split.id
            queue0 == IF id \in DOMAIN st1.split_packet_queue
                      THEN st1.split_packet_queue[id]
                      ELSE [i \in 1..p.split.count |-> NoData]
        IN  IF p.split.index >= Len(queue0)
            THEN [st1 EXCEPT !.split_packet_queue = DictSet(st1.split_packet_queue, id, queue0),
                             !.raised = TRUE]
            ELSE
            LET queue1 == [queue0 EXCEPT ![p.split.index + 1] = [some |-> TRUE, val |-> p.data]]
                ready == \A i \in 1..Len(queue1) : queue1[i].some
            IN  IF ready
                THEN FilterPacket([st1 EXCEPT !.split_packet_queue = DictDel(st1.split_packet_queue, id)],
                                  p, JoinParts(queue1, 1), t)
                ELSE [st1 EXCEPT !.split_packet_queue = DictSet(st1.split_packet_queue, id, queue1)]

RECURSIVE ParsePackets(_, _, _, _)
ParsePackets(st, packets, i, t) ==
    IF st.raised \/ i > Len(packets) THEN st
    ELSE ParsePackets(ParsePacket(st, packets[i], t), packets, i + 1, t)

\* The handles are left scheduled.
CancelTimers_Forgotten(timers, handles) == timers

\* Handle.cancel() for each of the handles.
CancelTimers(timers, handles) == timers \ handles

\* _handle_datagram_header, the part under "if has_acks".
HandleAcks(st, d, t) ==
    LET rtt == Norm(t - st.start_time - d.old_time, 1000)
        covered == RangeListItems(d.acks) \cap DOMAIN st.resends
        left == DictDelAll(st.resends, covered)
        num_acks == RangeListLen(d.acks)
        act_num_holes == Cardinality(RangeListHoles(d.acks) \cap DOMAIN left)
        st1 == [st EXCEPT !.rto_calc = RTOCalcUpdate(st.rto_calc, rtt),
                          !.resend_timers = CancelTimers(st.resend_timers,
                                                         {st.resends[m] : m \in covered}),
                          !.resends = left,
                          !.acked = st.acked \cup covered]
    IN  IF CWNDCalcUpdateRaises(st.cwnd_calc, st.packets_sent, num_acks, act_num_holes)
        THEN [st1 EXCEPT !.raised = TRUE]
        ELSE [st1 EXCEPT !.cwnd_calc = CWNDCalcUpdate(st.cwnd_calc, st.packets_sent, num_acks,
                                                      act_num_holes),
                         !.packets_sent = 0,
                         !.last_ack_time = t]

\* RaknetConnection.handle_datagram
ConnectionHandleDatagram(st, d, t) ==
    LET st1 == IF d.has_acks THEN HandleAcks(st, d, t) ELSE st
    IN  IF st1.raised \/ d.ack_only THEN st1
        ELSE ParsePackets(
                [st1 EXCEPT !.remote_system_time =
                    IF d.has_remote_system_time THEN d.remote_system_time ELSE @],
                d.packets, 1, t)

(***************************************************************************)
(* RaknetTransport.  The map holds this connection for Address while       *)
(* connected; st.others are the addresses it maps to other connection      *)
(* objects, of which only the presence in the map is represented.          *)
(***************************************************************************)
MapSize(st) == Cardinality(st.others) + (IF st.connected THEN 1 ELSE 0)

\* Every address is taken as having a connection.
InMap_Always(st, address) == TRUE

\* address in self._connections
InMap(st, address) == (address = Address /\ st.connected) \/ address \in st.others

\* The map is never taken as full.
HasFreeSlot_Always(st) == TRUE

\* len(self._connections) < self._max_connections
HasFreeSlot(st) == MapSize(st) < MaxConnections

\* RaknetTransport._on_open_connection_request
OnOpenConnectionRequest(st, address) ==
    IF HasFreeSlot(st)
    THEN [st EXCEPT !.others = IF InMap(st, address) THEN @ ELSE @ \cup {address},
                    !.replies = Append(@, [data |-> <<OpenConnectionReply, 0>>, to |-> address])]
    ELSE [st EXCEPT !.replies = Append(@, [data |-> <<NoFreeIncomingConnections, 0>>,
                                           to |-> address])]

\* handle_datagram of another connection object, for a datagram of unsplit
\* Unreliable packets: each payload with a closing message id dispatches the
\* Close event of that connection.
RECURSIVE OtherHandleDatagram(_, _, _, _)
OtherHandleDatagram(st, address, packets, i) ==
    IF st.raised \/ i > Len(packets) THEN st
    ELSE OtherHandleDatagram(
            IF ~IsCloseMessage(packets[i].data[1]) THEN st
            ELSE IF address \in st.others
                 THEN [st EXCEPT !.closes = @ + 1, !.others = @ \ {address}]
                 ELSE [st EXCEPT !.closes = @ + 1, !.raised = TRUE],
            address, packets, i + 1)

\* RaknetTransport.datagram_received for a raw datagram (len(data) <= 2).
RawDatagramReceived(st, data, address) ==
    IF Len(data) = 0 THEN [st EXCEPT !.raised = TRUE]
    ELSE IF data[1] = OpenConnectionRequest THEN OnOpenConnectionRequest(st, address)
    ELSE st

\* RaknetTransport.datagram_received for a longer datagram, d its content.
TransportDatagramReceived(st, d, address, t) ==
    IF ~InMap(st, address) THEN st
    ELSE IF address = Address /\ st.connected THEN ConnectionHandleDatagram(st, d, t)
    ELSE OtherHandleDatagram(st, address, d.packets, 1)

\* Connection._on_broadcast of this connection, a listener of the
\* Broadcast event for as long as the dispatcher lives.
OnBroadcast(st, data, reliability, excluded, t) ==
    IF excluded THEN st ELSE ConnectionSend(st, data, reliability, t)

(***************************************************************************)
(* Actions: the entry points the event loop and the application call.      *)
(***************************************************************************)
\* RaknetTransport.datagram_received for a datagram of more than 2 bytes
\* from Address while the map holds this connection for it.
HandleDatagram(d) ==
    /\ connected
    /\ Commit(ConnectionHandleDatagram(State, d, now), "handle_datagram", d)
    /\ steps' = steps + 1
    /\ now' = now

\* RaknetTransport.datagram_received: a raw datagram from address.
RawDatagram(data, address) ==
    /\ Commit(RawDatagramReceived(State, data, address), "raw_datagram",
              [data |-> data, address |-> address])
    /\ steps' = steps + 1
    /\ now' = now

\* RaknetTransport.datagram_received: a longer datagram from address.
DatagramReceived(d, address) ==
    /\ Commit(TransportDatagramReceived(State, d, address, now), "datagram_received",
              [datagram |-> d, address |-> address])
    /\ steps' = steps + 1
    /\ now' = now

\* Connection.broadcast is called on a connection of the dispatcher.
Broadcast(data, reliability, excluded) ==
    /\ Commit(OnBroadcast(State, data, reliability, excluded, now), "broadcast",
              [data |-> data, reliability |-> reliability, excluded |-> excluded])
    /\ steps' = steps + 1
    /\ now' = now

\* The application calls send on the connection.
Send(data, reliability) ==
    /\ Commit(ConnectionSend(State, data, reliability, now), "send",
              [data |-> data, reliability |-> reliability])
    /\ steps' = steps + 1
    /\ now' = now

Due(handle) == RLeq(handle.due, Rat(now))

\* The retransmission timer handle fires: _schedule_send with its arguments.
ResendTimer(handle) ==
    /\ handle \in resend_timers
    /\ Due(handle)
    /\ Commit(ScheduleSend([State EXCEPT !.resend_timers = resend_timers \ {handle}],
                           handle.packet, now),
              "resend_timer", handle)
    /\ UNCHANGED <<now, steps>>

\* _send_acks_only
ConnectionSendAcksOnly(st) ==
    IF Len(st.acks) > 0
    THEN [st EXCEPT !.send_acks_handle = None,
                    !.acks = ClearAcks(st.acks),
                    !.sent = Append(st.sent, Datagram(TRUE, st.remote_system_time, st.acks,
                                                      TRUE, FALSE, 0, <<>>))]
    ELSE [st EXCEPT !.send_acks_handle = None]

\* The ACK flush timer fires: _send_acks_only.
SendAcksOnly ==
    /\ send_acks_handle.some
    /\ send_acks_handle.val <= now
    /\ Commit(ConnectionSendAcksOnly(State), "send_acks_only", <<>>)
    /\ UNCHANGED <<now, steps>>

\* The connection is closed at the limit already.
AckOverdue_AtLimit(last_ack, t) == last_ack <= t - CheckCloseDelayMs

\* self._last_ack_time < time.perf_counter() - 10
AckOverdue(last_ack, t) == last_ack < t - CheckCloseDelayMs

\* _check_close, run by the timer that has just fired.
ConnectionCheckClose(st, t) ==
    IF DOMAIN st.resends # {} /\ AckOverdue(st.last_ack_time, t)
    THEN Close([st EXCEPT !.check_close_timer = None])
    ELSE [st EXCEPT !.check_close_timer = Some(t + CheckCloseDelayMs),
                    !.check_close_handle = TRUE]

\* The liveness probe timer fires: _check_close.
CheckClose ==
    /\ check_close_timer.some
    /\ check_close_timer.val <= now
    /\ Commit(ConnectionCheckClose(State, now), "check_close", <<>>)
    /\ UNCHANGED <<now, steps>>

\* Time passes.
Tick(ms) ==
    /\ now' = now + ms
    /\ UNCHANGED <<start_time, last_ack_time, check_close_timer, check_close_handle,
                   recvVars, sendVars, logVars, listVars, streamVars, replicaVars>>


(***************************************************************************)
(* ReliableOrdered arrivals.  The peer sent the payloads OrderedPayload(0) *)
(* .. OrderedPayload(MaxOrderIndex), one packet each, message number =     *)
(* ordering index; the network delivers them in any order, any number of   *)
(* times, one or two to a datagram.                                        *)
(***************************************************************************)
OrderedPayload(i) == <<UserPacket, i>>
OrderedPacket(i) == Packet(i, ReliableOrdered, Some(i), NoSplit, OrderedPayload(i))

OrderedDatagrams ==
    {PacketDatagram(<<OrderedPacket(i)>>) : i \in 0..MaxOrderIndex}
    \cup {PacketDatagram(<<OrderedPacket(i), OrderedPacket(i + 1)>>) : i \in 0..(MaxOrderIndex - 1)}
    \cup {PacketDatagram(<<OrderedPacket(i + 1), OrderedPacket(i)>>) : i \in 0..(MaxOrderIndex - 1)}

NextOrdered ==
    \/ \E d \in OrderedDatagrams : steps < MaxArrivals /\ HandleDatagram(d)
    \/ \E ms \in {SendAcksDelayMs} : now < SendAcksDelayMs /\ Tick(ms)
    \/ SendAcksOnly

SpecOrdered == Init /\ [][NextOrdered]_vars

\* C1: the payloads dispatched as Receive events are those of the ordering
\* indices 0, 1, 2, ... in this order, without gap or repetition.
C1_DeliveredInOrder ==
    \A k \in 1..Len(delivered) : delivered[k] = OrderedPayload(k - 1)

\* C2: handling one ReliableOrdered packet whose ordering index is above
\* ordered_read_index stores it in out_of_order_packets and dispatches no
\* Receive event; one whose index is below ordered_read_index is dropped.
C2_EarlyBufferedNotDelivered ==
    [][(steps' = steps + 1 /\ last'.op = "handle_datagram" /\ Len(last'.arg.packets) = 1)
        => LET p == last'.arg.packets[1]
           IN  /\ p.ordering_index.val > ordered_read_index
                    => /\ p.ordering_index.val \in DOMAIN out_of_order_packets'
                       /\ out_of_order_packets'[p.ordering_index.val] = p.data
                       /\ last'.out.recv = <<>>
               /\ p.ordering_index.val < ordered_read_index
                    => /\ last'.out.recv = <<>>
                       /\ out_of_order_packets' = out_of_order_packets
                       /\ ordered_read_index' = ordered_read_index]_vars


\* A step in which handle_datagram ran on a datagram of exactly one packet.
HandledOnePacket ==
    /\ steps' = steps + 1
    /\ last'.op = "handle_datagram"
    /\ Len(last'.arg.packets) = 1

\* The fields of the connection proper are left as they were.
ConnectionUnchanged == UNCHANGED <<timeVars, recvVars, sendVars, connected>>

(***************************************************************************)
(* UnreliableSequenced arrivals: the packets of the ordering indices       *)
(* 0..MaxSequencedIndex in any order, any number of times.                 *)
(***************************************************************************)
SequencedPayload(i) == <<UserPacket, i>>
SequencedPacket(i) == Packet(i, UnreliableSequenced, Some(i), NoSplit, SequencedPayload(i))

SequencedDatagrams ==
    {PacketDatagram(<<SequencedPacket(i)>>) : i \in 0..MaxSequencedIndex}
    \cup {PacketDatagram(<<SequencedPacket(i), SequencedPacket(j)>>) :
            i \in {0, MaxSequencedIndex}, j \in {1, 2}}

NextSequenced ==
    \E d \in SequencedDatagrams : steps < MaxArrivals /\ HandleDatagram(d)

SpecSequenced == Init /\ [][NextSequenced]_vars

\* C4: an UnreliableSequenced packet is delivered iff its ordering index is
\* at least sequenced_read_index, which then becomes the index + 1; else it
\* is dropped and the connection is left unchanged.  The delivered indices
\* are strictly increasing.
C4_SequencedFilter ==
    [][/\ HandledOnePacket =>
            LET p == last'.arg.packets[1]
            IN  IF p.ordering_index.val >= sequenced_read_index
                THEN /\ last'.out.recv = <<p.data>>
                     /\ sequenced_read_index' = p.ordering_index.val + 1
                ELSE /\ last'.out.recv = <<>>
                     /\ delivered' = delivered
                     /\ ConnectionUnchanged
       /\ \A j, k \in 1..Len(delivered') : j < k => delivered'[j][2] < delivered'[k][2]
       /\ \A k \in 1..Len(delivered') : delivered'[k][2] < sequenced_read_index']_vars

\* Index 5 was delivered, then index 3 arrived and was dropped.
C4_Witness ==
    /\ delivered = <<SequencedPayload(5)>>
    /\ last.op = "handle_datagram"
    /\ last.arg = PacketDatagram(<<SequencedPacket(3)>>)
    /\ last.out.recv = <<>>


(***************************************************************************)
(* Reliable arrivals.  The peer sends Reliable packets with the message    *)
(* numbers 0, 1, 2, ...; a new one arrives after its predecessors, and     *)
(* every packet that has arrived may arrive again at any later time (a     *)
(* retransmission whose ACK was late or lost).                             *)
(***************************************************************************)
ReliablePayload(n) == <<UserPacket, n>>
ReliablePacket(n) == Packet(n, Reliable, None, NoSplit, ReliablePayload(n))

DeliveredNumbers == {delivered[k][2] : k \in 1..Len(delivered)}

ReliableArrivals ==
    {n \in 0..MaxReliableNumber : n \in DeliveredNumbers \/ \A m \in 0..(n - 1) : m \in DeliveredNumbers}

NextReliable ==
    \E n \in ReliableArrivals :
        steps < MaxReliableArrivals /\ HandleDatagram(PacketDatagram(<<ReliablePacket(n)>>))

SpecReliable == Init /\ [][NextReliable]_vars

\* The message numbers of the last RecentReliableSize payloads delivered.
RecentlyDelivered(log) ==
    {log[k][2] : k \in {j \in 1..Len(log) : j > Len(log) - RecentReliableSize}}

\* C3: a Reliable packet is dropped iff its message number is among the last
\* 20 delivered Reliable message numbers; otherwise it is delivered and its
\* number takes the place of the oldest of the 20.  The same packet handled
\* twice in a row is delivered once.
C3_ReliableDuplicateFilter ==
    [][HandledOnePacket =>
            LET p == last'.arg.packets[1]
            IN  /\ IF p.message_number \in RecentlyDelivered(delivered)
                   THEN /\ last'.out.recv = <<>>
                        /\ delivered' = delivered
                        /\ last_rel_received' = last_rel_received
                   ELSE /\ last'.out.recv = <<p.data>>
                        /\ delivered' = Append(delivered, p.data)
                /\ {last_rel_received'[i] : i \in 1..RecentReliableSize} \ {-1}
                        = RecentlyDelivered(delivered')
                /\ Len(last_rel_received') = RecentReliableSize
                /\ (last.op = "handle_datagram" /\ last.arg = last'.arg /\ last.out.recv # <<>>)
                        => last'.out.recv = <<>>]_vars

\* More than 20 payloads were delivered, so that a number has left the
\* list, and the packet handled last was dropped as a duplicate.
C3_Witness ==
    /\ Len(delivered) > RecentReliableSize
    /\ last.op = "handle_datagram"
    /\ last.out.recv = <<>>
    /\ \E j, k \in 1..Len(delivered) : j < k /\ delivered[j] = delivered[k]


(***************************************************************************)
(* Split packet arrivals.  The peer split SplitPayload(0) into three       *)
(* Unreliable fragments and SplitPayload(1) into two ReliableOrdered ones; *)
(* the fragments arrive in any order, any number of times, one or two to a *)
(* datagram.                                                               *)
(***************************************************************************)
SplitPayload(id) == IF id = 0 THEN <<UserPacket, 1, 2, 3, 4>> ELSE <<UserPacket, 9, 8>>
SplitReliability(id) == IF id = 0 THEN Unreliable ELSE ReliableOrdered
SplitFirstNumber(id) == IF id = 0 THEN 0 ELSE 3
SplitParts(id) == Chunks(SplitPayload(id), 0, 2)

Fragment(id, index) ==
    Packet(SplitFirstNumber(id) + index, SplitReliability(id),
           IF id = 0 THEN None ELSE Some(0),
           SplitInfo(id, index, Len(SplitParts(id))), SplitParts(id)[index + 1])

Fragments == {Fragment(0, index) : index \in 0..2} \cup {Fragment(1, index) : index \in 0..1}

FragmentDatagrams ==
    {PacketDatagram(<<f>>) : f \in Fragments}
    \cup {PacketDatagram(<<Fragment(0, 2), Fragment(0, 1)>>),
          PacketDatagram(<<Fragment(0, 0), Fragment(1, 1)>>),
          PacketDatagram(<<Fragment(1, 0), Fragment(1, 1)>>)}

NextFragments ==
    \E d \in FragmentDatagrams : steps < MaxArrivals /\ HandleDatagram(d)

SpecFragments == Init /\ [][NextFragments]_vars

\* C5: while a slot of the split payload is empty its fragments produce no
\* Receive event and no payload is passed on; the fragment that fills the
\* last empty slot passes on exactly one payload, the concatenation of the
\* fragments in part_index order.  Only whole payloads are ever delivered.
C5_SplitReassembly ==
    [][/\ HandledOnePacket =>
            LET p == last'.arg.packets[1]
                id == p.split.id
                empty == IF id \in DOMAIN split_packet_queue
                         THEN {i \in 0..(p.split.count - 1) : ~split_packet_queue[id][i + 1].some}
                         ELSE 0..(p.split.count - 1)
            IN  IF empty \subseteq {p.split.index}
                THEN /\ last'.out.passed = <<SplitPayload(id)>>
                     /\ p.reliability = Unreliable => last'.out.recv = <<SplitPayload(id)>>
                     /\ Len(last'.out.recv) <= 1
                     /\ id \notin DOMAIN split_packet_queue'
                ELSE /\ last'.out.passed = <<>>
                     /\ last'.out.recv = <<>>
                     /\ id \in DOMAIN split_packet_queue'
       /\ \A k \in 1..Len(delivered') : delivered'[k] \in {SplitPayload(0), SplitPayload(1)}]_vars

\* The three fragments of payload 0 arrived out of order and the fragment
\* of index 0 completed it.
C5_Witness ==
    /\ last.op = "handle_datagram"
    /\ last.arg = PacketDatagram(<<Fragment(0, 0)>>)
    /\ last.out.recv = <<SplitPayload(0)>>
    /\ 0 \notin DOMAIN split_packet_queue


(***************************************************************************)
(* Sending.  The application sends payloads of the lengths around the      *)
(* split threshold with every reliability in use; the peer acknowledges.   *)
(***************************************************************************)
Reliabilities == {Unreliable, UnreliableSequenced, Reliable, ReliableOrdered}

Payload(length) == [i \in 1..length |-> (i - 1) % 256]

SplitLengths == {2, 1187, 1188, 1193, 2357, 4000}

NextSplitSend ==
    \/ \E length \in SplitLengths, reliability \in Reliabilities :
            steps < MaxSplitSends /\ Send(Payload(length), reliability)
    \/ \E ranges \in {<<Range(0, 3)>>} :
            steps < MaxSplitSends /\ HandleDatagram(AcksDatagram(0, ranges))

SpecSplitSend == Init /\ [][NextSplitSend]_vars

RECURSIVE JoinPackets(_, _)
JoinPackets(packets, i) ==
    IF i > Len(packets) THEN <<>> ELSE packets[i].data \o JoinPackets(packets, i + 1)

\* A step in which send ran.
Sent == steps' = steps + 1 /\ last'.op = "send"

\* C6: a payload that is split is cut into ceil(len / (1200 - header(split)))
\* chunks of that size (the last one the rest), which carry one split id not
\* used before, the part indices 0..count-1, the same count and the same
\* ordering index (the write index advances by one) and make up the payload.
C6_SplitChunks ==
    [][Sent =>
        LET data == last'.arg.data
            reliability == last'.arg.reliability
            sched == last'.out.sched
            size == (MTU_SIZE - UDP_HEADER_SIZE) - PacketHeaderLength(reliability, TRUE)
            count == CeilDiv(Len(data), size)
            ordering_index ==
                IF reliability = UnreliableSequenced THEN Some(sequenced_write_index)
                ELSE IF reliability = ReliableOrdered THEN Some(ordered_write_index)
                ELSE None
        IN  /\ (sched[1].split.some
                    \/ PacketHeaderLength(reliability, FALSE) + Len(data) > MTU_SIZE - UDP_HEADER_SIZE)
               => /\ Len(sched) = count
                  /\ \A i \in 1..count :
                        /\ sched[i].split = SplitInfo(split_packet_id, i - 1, count)
                        /\ sched[i].reliability = reliability
                        /\ sched[i].ordering_index = ordering_index
                        /\ sched[i].message_number = send_message_number_index + i - 1
                        /\ Len(sched[i].data) = IF i < count THEN size ELSE Len(data) - (count - 1) * size
                  /\ JoinPackets(sched, 1) = data
                  /\ split_packet_id' = split_packet_id + 1
                  /\ (Len(data) = 4000 /\ reliability = ReliableOrdered) => (size = 1178 /\ count = 4)
            /\ sequenced_write_index' = sequenced_write_index
                    + (IF reliability = UnreliableSequenced THEN 1 ELSE 0)
            /\ ordered_write_index' = ordered_write_index
                    + (IF reliability = ReliableOrdered THEN 1 ELSE 0)]_vars

\* The second split payload sent is the ReliableOrdered one of 4000 bytes.
C6_Witness ==
    /\ last.op = "send"
    /\ last.arg = [data |-> Payload(4000), reliability |-> ReliableOrdered]
    /\ Len(last.out.sched) = 4
    /\ split_packet_id = 2

\* C7: a payload with header + length <= 1200 is sent as exactly one packet
\* without split info; only a longer one is split.
C7_FittingPayloadNotSplit ==
    last.op = "send" =>
        LET fits == PacketHeaderLength(last.arg.reliability, FALSE) + Len(last.arg.data)
                        <= MTU_SIZE - UDP_HEADER_SIZE
        IN  fits <=> (Len(last.out.sched) = 1 /\ ~last.out.sched[1].split.some)

(***************************************************************************)
(* Sending, retransmitting and acknowledging: short payloads, the ACK      *)
(* datagrams of the peer, the retransmission timers and the clock.         *)
(***************************************************************************)
AckLists == {<<Range(0, 0)>>, <<Range(1, 1)>>, <<Range(0, 1)>>, <<Range(0, 0), Range(2, 2)>>}
OldTimes == {0, 800}
TickSteps == {1000}

NextSend ==
    \/ \E reliability \in Reliabilities :
            steps < MaxSendSteps /\ connected /\ Send(<<UserPacket, steps>>, reliability)
    \/ \E ranges \in AckLists, old_time \in OldTimes :
            steps < MaxSendSteps /\ HandleDatagram(AcksDatagram(old_time, ranges))
    \/ \E handle \in resend_timers : ResendTimer(handle)
    \/ \E ms \in TickSteps : now + ms <= MaxNow /\ Tick(ms)

SpecSend == Init /\ [][NextSend]_vars

TxCount(counts, message_number) ==
    IF message_number \in DOMAIN counts THEN counts[message_number] ELSE 0

\* A step in which a retransmission timer fired.
ResendTimerFired == last'.op = "resend_timer" /\ now' = now /\ vars' # vars

\* C8: each time the retransmission timer of an un-ACKed packet fires on an
\* open connection, a datagram with its message number is transmitted and
\* the timer is armed again with the current rto, whatever the window.
C8_TimerRetransmits ==
    [][(ResendTimerFired /\ connected) =>
        LET m == last'.arg.packet.message_number
        IN  /\ TxCount(tx_count', m) = TxCount(tx_count, m) + 1
            /\ m \in DOMAIN resends'
            /\ resends'[m] \in resend_timers'
            /\ resends'[m].delay = rto_calc.rto]_vars

\* C9: no packet accepted by send is discarded: each has been transmitted or
\* is held for a later transmission (in sends, or with its timer in resends).
C9_NoPacketDiscarded ==
    \A m \in 0..(send_message_number_index - 1) :
        \/ TxCount(tx_count, m) > 0
        \/ \E i \in 1..Len(sends) : sends[i].message_number = m
        \/ m \in DOMAIN resends /\ resends[m] \in resend_timers

\* C10: an ACK list removes from resends exactly the message numbers it
\* covers that are in resends and cancels their timers; a message number
\* removed by an ACK is never transmitted again.
C10_AckStopsRetransmission ==
    [][/\ \A m \in acked : /\ TxCount(tx_count', m) = TxCount(tx_count, m)
                           /\ m \notin DOMAIN resends'
                           /\ \A h \in resend_timers' : h.packet.message_number # m
       /\ (steps' = steps + 1 /\ last'.op = "handle_datagram") =>
            LET covered == RangeListItems(last'.arg.acks) \cap DOMAIN resends
            IN  /\ DOMAIN resends' = DOMAIN resends \ covered
                /\ \A m \in DOMAIN resends' : resends'[m] = resends[m]
                /\ resend_timers' = resend_timers \ {resends[m] : m \in covered}
                /\ acked' = acked \cup covered]_vars

\* After an ACK removed a message number, the timer of another packet fired
\* and retransmitted it.
C10_Witness ==
    /\ acked # {}
    /\ last.op = "resend_timer"
    /\ Len(last.out.sent) = 1
    /\ last.arg.packet.message_number \notin acked


(***************************************************************************)
(* Acknowledging.  The peer's packets of the message numbers               *)
(* 0..MaxAckNumber arrive with any reliability, the application sends, the *)
(* peer acknowledges, the flush timer fires and time passes.  The event    *)
(* loop runs a timer that is due, and time goes on.                        *)
(***************************************************************************)
AckedPacket(n, reliability) ==
    Packet(n, reliability, IF reliability = ReliableOrdered THEN Some(n) ELSE None,
           NoSplit, <<UserPacket, n>>)

AckedDatagrams ==
    {PacketDatagram(<<AckedPacket(n, reliability)>>) :
        n \in 0..MaxAckNumber, reliability \in {Unreliable, Reliable, ReliableOrdered}}
    \cup {PacketDatagram(<<AckedPacket(0, Reliable), AckedPacket(MaxAckNumber, ReliableOrdered)>>)}

AckTickSteps == {15}

TickAcks == \E ms \in AckTickSteps : now + ms <= MaxAckNow /\ Tick(ms)

NextAcks ==
    \/ \E d \in AckedDatagrams :
            steps < MaxAckSteps /\ now + SendAcksDelayMs <= MaxAckNow /\ HandleDatagram(d)
    \/ \E reliability \in {Unreliable, Reliable} :
            steps < MaxAckSteps /\ Send(<<UserPacket, steps>>, reliability)
    \/ \E ranges \in {<<Range(0, 1)>>} :
            steps < MaxAckSteps /\ HandleDatagram(AcksDatagram(0, ranges))
    \/ SendAcksOnly
    \/ TickAcks

SpecAcks == Init /\ [][NextAcks]_vars /\ WF_vars(SendAcksOnly) /\ WF_vars(TickAcks)

\* The message numbers in the ACK range lists of the datagrams sent.
EmittedAcks(sent) ==
    UNION {RangeListItems(sent[i].acks) : i \in {j \in 1..Len(sent) : sent[j].has_acks}}

\* The message numbers of the Reliable and ReliableOrdered packets of the
\* datagram d.
ReliableNumbers(d) ==
    {d.packets[i].message_number : i \in {j \in 1..Len(d.packets) : IsReliable(d.packets[j].reliability)}}

\* C11: a message number received in a Reliable or ReliableOrdered packet is
\* put into acks, and the flush timer is armed for 30 ms later unless one is
\* armed; the numbers in acks go out, all at once, with the next datagram the
\* connection sends (piggy-backed or ACK-only), acks is empty after that, a
\* number leaves acks in no other way, and every number in acks is sent at
\* last.
C11_AckEmission ==
    /\ [](Len(acks) > 0 => (send_acks_handle.some /\ send_acks_handle.val <= now + SendAcksDelayMs))
    /\ [][now' = now =>
            LET handled == steps' = steps + 1 /\ last'.op = "handle_datagram"
                received == IF handled THEN ReliableNumbers(last'.arg) ELSE {}
                sent == last'.out.sent
            IN  /\ RangeListItems(acks') \cup EmittedAcks(sent) = RangeListItems(acks) \cup received
                /\ RangeListItems(acks') \cap EmittedAcks(sent) = {}
                /\ sent # <<>> =>
                        /\ Len(acks) > 0 => (sent[1].has_acks /\ sent[1].acks = acks)
                        /\ acks' = <<>>
                        /\ \A i \in 2..Len(sent) : ~sent[i].has_acks
                /\ (handled /\ received # {}) =>
                        send_acks_handle' = IF send_acks_handle.some THEN send_acks_handle
                                            ELSE Some(now + SendAcksDelayMs)
                /\ (send_acks_handle.some /\ ~send_acks_handle'.some) =>
                        (Len(acks) > 0 <=> Len(sent) = 1)]_vars
    /\ \A n \in 0..MaxAckNumber :
            (n \in RangeListItems(acks)) ~> (n \notin RangeListItems(acks))

\* Two numbers were received, then piggy-backed on a datagram of send, and
\* the flush timer that was armed is still to fire.
C11_Witness ==
    /\ last.op = "send"
    /\ Len(last.out.sent) = 1
    /\ last.out.sent[1].has_acks
    /\ RangeListLen(last.out.sent[1].acks) = 2
    /\ acks = <<>>
    /\ send_acks_handle.some


(***************************************************************************)
(* The transport.  Raw datagrams and datagrams of unsplit Unreliable       *)
(* packets arrive from Address and from other addresses; some datagrams    *)
(* carry a reliability value that is not used or not in the enum.          *)
(***************************************************************************)
OtherAddresses ==
    {[ip |-> <<127, 0, 0, 1>>, port |-> Address.port + k] : k \in 1..MaxConnections}

TransportAddresses == {Address} \cup OtherAddresses

UnreliablePacket(data) == Packet(0, Unreliable, None, NoSplit, data)

TransportDatagrams ==
    {PacketDatagram(<<UnreliablePacket(<<UserPacket, 0>>)>>),
     PacketDatagram(<<UnreliablePacket(<<DisconnectionNotification>>)>>),
     PacketDatagram(<<UnreliablePacket(<<ConnectionLost>>), UnreliablePacket(<<UserPacket, 0>>)>>),
     PacketDatagram(<<UnreliablePacket(<<DisconnectionNotification>>),
                      UnreliablePacket(<<DisconnectionNotification>>)>>)}

\* Datagrams whose packet has the reliability value r on the wire.
BadReliabilities == {ReliableSequenced, 5, 7}
BadDatagrams ==
    {PacketDatagram(<<Packet(0, r, None, NoSplit, <<UserPacket, 0>>)>>) : r \in BadReliabilities}

RawDatagrams == {<<OpenConnectionRequest, 0>>, <<OpenConnectionReply, 0>>}

NextTransport ==
    \/ \E data \in RawDatagrams, address \in TransportAddresses :
            steps < MaxTransportSteps /\ RawDatagram(data, address)
    \/ \E d \in TransportDatagrams \cup BadDatagrams, address \in TransportAddresses :
            steps < MaxTransportSteps /\ DatagramReceived(d, address)

SpecTransport == Init /\ [][NextTransport]_vars

\* The map has an entry for the address; the number of its entries.
HasEntry(address) == (address = Address /\ connected) \/ address \in others
Entries == Cardinality(others) + (IF connected THEN 1 ELSE 0)
HasEntryNext(address) == (address = Address /\ connected') \/ address \in others'

\* A step in which datagram_received ran on a longer datagram / a raw one.
Received == steps' = steps + 1 /\ last'.op = "datagram_received"
ReceivedRaw == steps' = steps + 1 /\ last'.op = "raw_datagram"

\* C13: a Close event removes the connection from the map: the map has no
\* entry for the address afterwards and is one entry smaller; a datagram of
\* more than 2 bytes from an address without entry changes nothing and
\* produces nothing.
C13_CloseRemovesFromMap ==
    [][Received =>
        LET address == last'.arg.address IN
        /\ close_events' > close_events =>
                /\ ~HasEntryNext(address)
                /\ ~last'.out.raised => Entries' = Entries - 1
                /\ \A other \in TransportAddresses \ {address} :
                        HasEntryNext(other) <=> HasEntry(other)
        /\ ~HasEntry(address) =>
                /\ UNCHANGED <<timeVars, recvVars, sendVars, connected, others, delivered,
                               close_events, tx_count, acked>>
                /\ last'.out = NoOutput]_vars

\* The connection of Address was closed by a notification, its address was
\* given to a new request of another address, and a later datagram from
\* Address was ignored.
C13_Witness ==
    /\ last.op = "datagram_received"
    /\ last.arg.address = Address
    /\ last.arg.datagram = PacketDatagram(<<UnreliablePacket(<<UserPacket, 0>>)>>)
    /\ ~connected
    /\ Address \notin others
    /\ Cardinality(others) = MaxConnections
    /\ close_events = 1
    /\ delivered = <<>>

\* C16: the map never holds more than max_connections entries; a request
\* from an address without entry creates exactly its entry and is answered
\* with OpenConnectionReply when the map holds fewer, and creates nothing
\* and is answered with NoFreeIncomingConnections when the map is full.
C16_Admission ==
    /\ [](Entries <= MaxConnections)
    /\ [][(ReceivedRaw /\ last'.arg.data[1] = OpenConnectionRequest
                /\ ~HasEntry(last'.arg.address)) =>
            LET address == last'.arg.address IN
            IF Entries < MaxConnections
            THEN /\ others' = others \cup {address}
                 /\ connected' = connected
                 /\ last'.out.replies = <<[data |-> <<OpenConnectionReply, 0>>, to |-> address]>>
            ELSE /\ others' = others
                 /\ connected' = connected
                 /\ last'.out.replies =
                        <<[data |-> <<NoFreeIncomingConnections, 0>>, to |-> address]>>]_vars

\* After a Close event the map filled up again and the request of an address
\* without entry was refused.
C16_Witness ==
    /\ last.op = "raw_datagram"
    /\ last.out.replies = <<[data |-> <<NoFreeIncomingConnections, 0>>, to |-> last.arg.address]>>
    /\ ~HasEntry(last.arg.address)
    /\ Entries = MaxConnections
    /\ close_events > 0

\* C17: a request from an address that has a connection is answered with
\* OpenConnectionReply, whatever the number of connections, and leaves the
\* map and the connection as they were.
C17_KnownAddressReply ==
    [][(ReceivedRaw /\ last'.arg.data[1] = OpenConnectionRequest
            /\ HasEntry(last'.arg.address)) =>
        /\ last'.out.replies = <<[data |-> <<OpenConnectionReply, 0>>, to |-> last'.arg.address]>>
        /\ UNCHANGED <<timeVars, recvVars, sendVars, connected, others>>]_vars

\* C19: a datagram with a reliability value that cannot be parsed closes the
\* connection it is for (one Close event, no map entry left) and no
\* exception leaves datagram_received.
C19_ParseErrorCloses ==
    [][(Received /\ last'.arg.datagram \in BadDatagrams /\ HasEntry(last'.arg.address)
            /\ last'.arg.address = Address) =>
        /\ ~last'.out.raised
        /\ last'.out.closes = 1
        /\ ~HasEntryNext(Address)]_vars


(***************************************************************************)
(* The life of the connection: it receives payloads, among them the        *)
(* closing ones, and a Reliable packet to acknowledge; the application     *)
(* sends on it while it is open and broadcasts at any time; the peer       *)
(* acknowledges; the three kinds of timers fire and time passes.           *)
(***************************************************************************)
LifeDatagrams ==
    {PacketDatagram(<<UnreliablePacket(<<UserPacket, 0>>)>>),
     PacketDatagram(<<UnreliablePacket(<<DisconnectionNotification>>)>>),
     PacketDatagram(<<UnreliablePacket(<<ConnectionLost>>), UnreliablePacket(<<UserPacket, 1>>)>>),
     PacketDatagram(<<UnreliablePacket(<<UserPacket, 2>>), UnreliablePacket(<<DisconnectionNotification, 0>>)>>),
     PacketDatagram(<<AckedPacket(0, Reliable)>>),
     AcksDatagram(0, <<Range(0, 0)>>)}

LifeTickSteps == {5000}

NextLife ==
    \/ \E d \in LifeDatagrams : steps < MaxLifeSteps /\ HandleDatagram(d)
    \/ \E reliability \in {Reliable} :
            steps < MaxLifeSteps /\ connected /\ Send(<<UserPacket, steps>>, reliability)
    \/ \E excluded \in BOOLEAN :
            steps < MaxLifeSteps /\ Broadcast(<<UserPacket, steps>>, Reliable, excluded)
    \/ \E handle \in resend_timers : ResendTimer(handle)
    \/ SendAcksOnly
    \/ CheckClose
    \/ \E ms \in LifeTickSteps : now + ms <= MaxLifeNow /\ Tick(ms)

SpecLife == Init /\ [][NextLife]_vars

\* C12: when the Close event has been dispatched no timer of the connection
\* is left scheduled and resends is empty, and no timer callback of a closed
\* connection transmits a datagram.
C12_CloseCancelsTimers ==
    [][/\ close_events' > close_events =>
            /\ resend_timers' = {}
            /\ DOMAIN resends' = {}
            /\ ~send_acks_handle'.some
            /\ ~check_close_timer'.some
       /\ (~connected /\ now' = now /\ steps' = steps) => last'.out.sent = <<>>]_vars

\* The payloads of the packets of a datagram, in order.
Payloads(d) == [i \in 1..Len(d.packets) |-> d.packets[i].data]

\* The payloads of unsplit Unreliable packets pass every check, so that
\* handle_datagram gets each of them.
AllDelivered(d) ==
    /\ ~d.ack_only
    /\ \A i \in 1..Len(d.packets) :
            d.packets[i].reliability = Unreliable /\ ~d.packets[i].split.some

\* C14: of the payloads handle_datagram gets from a datagram, those with the
\* first byte 0x0d or 0x12 each trigger close() and are never dispatched as
\* Receive; the others are dispatched as Receive once each, in order.
C14_CloseMessagesNotReceived ==
    [][(steps' = steps + 1 /\ last'.op = "handle_datagram" /\ AllDelivered(last'.arg)) =>
        LET payloads == Payloads(last'.arg)
            closing(p) == p[1] \in {DisconnectionNotification, ConnectionLost}
        IN  /\ \A k \in 1..Len(last'.out.recv) : ~closing(last'.out.recv[k])
            /\ ~last'.out.raised =>
                    /\ last'.out.recv = SelectSeq(payloads, LAMBDA p : ~closing(p))
                    /\ last'.out.closes = Len(SelectSeq(payloads, closing))
                    /\ delivered' = delivered \o last'.out.recv
            /\ last'.out.closes > 0 => ~connected']_vars

\* A datagram with a ConnectionLost payload and a user payload: one Close
\* event and one Receive event, of the user payload.
C14_Witness ==
    /\ last.op = "handle_datagram"
    /\ Len(last.arg.packets) = 2
    /\ last.arg.packets[1].data = <<ConnectionLost>>
    /\ last.out.closes = 1
    /\ last.out.recv = <<<<UserPacket, 1>>>>
    /\ ~connected

\* C15: while the connection is open a probe is scheduled, 10 s after the
\* last one at most; a probe closes the open connection iff resends is not
\* empty and now - last_ack_time > 10 s, and otherwise leaves it open and
\* schedules the next probe 10 s later.
C15_LivenessProbe ==
    /\ [](connected => (check_close_timer.some /\ check_close_timer.val <= now + CheckCloseDelayMs))
    /\ [][(last'.op = "check_close" /\ check_close_timer' # check_close_timer /\ connected) =>
            IF DOMAIN resends # {} /\ now - last_ack_time > CheckCloseDelayMs
            THEN /\ ~connected'
                 /\ last'.out.closes = 1
                 /\ ~check_close_timer'.some
            ELSE /\ connected'
                 /\ last'.out.closes = 0
                 /\ check_close_timer' = Some(now + CheckCloseDelayMs)
                 /\ check_close_timer.val <= now]_vars

\* The first probe found an unacknowledged packet 10 s after the start and
\* left the connection open; the second probe closed it.
C15_Witness ==
    /\ last.op = "check_close"
    /\ last.out.closes = 1
    /\ check_close_handle
    /\ ~connected
    /\ DOMAIN resends # {}

\* C20: a Broadcast event dispatched when the connection has been closed
\* makes it send nothing: no Send event, no call of _schedule_send, no
\* datagram, no new entry of resends.
C20_ClosedIgnoresBroadcast ==
    [][(steps' = steps + 1 /\ last'.op = "broadcast" /\ ~connected) =>
        /\ last'.out.send_events = <<>>
        /\ last'.out.sched = <<>>
        /\ last'.out.sent = <<>>
        /\ resends' = resends]_vars


(***************************************************************************)
(* The handshake.  Reliable packets arrive with a ConnectionRequest (the   *)
(* password of the Server, a prefix of it, none), a ping or a user         *)
(* payload; the peer acknowledges, the timers fire and time passes.        *)
(***************************************************************************)
ServerPayloads ==
    {<<ConnectionRequest>> \o IncomingPassword,
     <<ConnectionRequest>> \o SubSeq(IncomingPassword, 1, 1),
     <<ConnectionRequest>>,
     <<InternalPing, 1, 2, 3, 4>>,
     <<UserPacket, 0>>}

ServerDatagrams ==
    {PacketDatagram(<<Packet(n, Reliable, None, NoSplit, payload)>>) :
        n \in 0..1, payload \in ServerPayloads}

ServerTickSteps == {1000}

NextServer ==
    \/ \E d \in ServerDatagrams : steps < MaxServerSteps /\ HandleDatagram(d)
    \/ \E ranges \in {<<Range(0, 0)>>} :
            steps < MaxServerSteps /\ connected /\ HandleDatagram(AcksDatagram(0, ranges))
    \/ \E handle \in resend_timers : ResendTimer(handle)
    \/ SendAcksOnly
    \/ \E ms \in ServerTickSteps : now + ms <= MaxNow /\ Tick(ms)

SpecServer == Init /\ [][NextServer]_vars

\* C18: a ConnectionRequest that is delivered with the password of the
\* Server is answered by one send of the ConnectionRequestAccepted payload
\* (message id, address of the peer, two zero bytes, address of the Server)
\* with reliability Reliable on the same connection, which stays open; one
\* with another password closes the connection and nothing is sent.
C18_ConnectionRequest ==
    [][(HandledOnePacket /\ last'.out.recv # <<>>
            /\ last'.arg.packets[1].data[1] = ConnectionRequest) =>
        LET packet_password == Tail(last'.arg.packets[1].data) IN
        IF packet_password = IncomingPassword
        THEN /\ last'.out.send_events =
                    <<<<14, 127, 0, 0, 1, 57, 48, 0, 0, 127, 0, 0, 1, 210, 4>>>>
             /\ Len(last'.out.sched) = 1
             /\ last'.out.sched[1] =
                    Packet(send_message_number_index, Reliable, None, NoSplit,
                           last'.out.send_events[1])
             /\ send_message_number_index \in DOMAIN resends'
             /\ Len(last'.out.sent) <= 1
             /\ \A i \in 1..Len(last'.out.sent) :
                    last'.out.sent[i].packets = last'.out.sched
             /\ last'.out.closes = 0
             /\ connected'
        ELSE /\ last'.out.closes = 1
             /\ ~connected'
             /\ last'.out.send_events = <<>>
             /\ last'.out.sched = <<>>
             /\ last'.out.sent = <<>>
             /\ UNCHANGED sendVars]_vars

\* The request with the right password was answered by a datagram that
\* carries the reply and, piggy-backed, the ACK of the request.
C18_Witness ==
    /\ last.op = "handle_datagram"
    /\ last.arg.packets[1].data = <<ConnectionRequest>> \o IncomingPassword
    /\ Len(last.out.sent) = 1
    /\ last.out.sent[1].has_acks
    /\ last.out.sent[1].packets[1].data[1] = ConnectionRequestAccepted
    /\ connected

(***************************************************************************)
(* A RangeList of its own: insert and clear with values drawn from         *)
(* 0..MaxListValue, and the list replaced by what deserialize makes of its *)
(* serialization (test_deserialize_insert).                                *)
(***************************************************************************)
ListCall(op, arg, out) ==
    /\ last' = [op |-> op, arg |-> arg, out |-> out]
    /\ steps' = steps + 1
    /\ UNCHANGED <<connVars, streamVars, replicaVars>>

ListInsert(item) ==
    /\ range_list' = RangeListInsert(range_list, item)
    /\ inserted' = inserted \cup {item}
    /\ ListCall("insert", item, <<>>)

ListClear ==
    /\ range_list' = RangeListClear(range_list)
    /\ inserted' = {}
    /\ ListCall("clear", <<>>, <<>>)

\* new_list = RangeList.deserialize(ReadStream(bytes(stream))) after
\* self.list.serialize(stream); new_list is the list from then on.
ListRoundTrip ==
    LET stream == RangeListSerialize(NewWriteStream, range_list)
        new_list == RangeListDeserialize(NewReadStream(stream.data))
    IN  /\ range_list' = IF new_list.err = "" THEN new_list.value ELSE range_list
        /\ inserted' = inserted
        /\ ListCall("round_trip", <<>>,
                    [stream |-> stream, err |-> new_list.err,
                     read_offset |-> new_list.stream.read_offset])

NextRangeList ==
    \/ \E item \in 0..MaxListValue : steps < MaxListSteps /\ ListInsert(item)
    \/ steps < MaxListSteps /\ ListClear
    \/ steps < MaxListSteps /\ ListRoundTrip

SpecRangeList == Init /\ [][NextRangeList]_vars

RECURSIVE SortedSeq(_)
SortedSeq(S) ==
    IF S = {} THEN <<>>
    ELSE LET least == CHOOSE x \in S : \A y \in S : x <= y
         IN  <<least>> \o SortedSeq(S \ {least})

\* The maximal runs of consecutive values of S, in ascending order.
Runs(S) ==
    LET starts == SortedSeq({x \in S : x - 1 \notin S})
        ends == SortedSeq({x \in S : x + 1 \notin S})
    IN  [i \in 1..Len(starts) |-> Range(starts[i], ends[i])]

\* C21: after any inserts into an empty list, iteration yields the sorted
\* distinct inserted values; the ranges are sorted by min, non-empty,
\* non-overlapping and non-adjacent (max + 1 < next min), hence they are the
\* maximal runs of the inserted set whatever the order of insertion; and the
\* insert of a value already contained changes nothing.
C21_InsertInvariants ==
    /\ [](/\ RangeListIter(range_list) = SortedSeq(inserted)
          /\ \A i \in 1..Len(range_list) : range_list[i].min <= range_list[i].max
          /\ \A i \in 1..(Len(range_list) - 1) :
                range_list[i].max + 1 < range_list[i + 1].min
          /\ range_list = Runs(inserted))
    /\ [][(last'.op = "insert" /\ last'.arg \in inserted) => range_list' = range_list]_vars

\* An insert has just merged two ranges into one, and a later one re-inserts.
C21_Witness ==
    /\ last.op = "insert"
    /\ last.arg \in {1, 2}
    /\ inserted = {0, 1, 2, 4}
    /\ range_list = <<Range(0, 2), Range(4, 4)>>
    /\ steps = MaxListSteps

\* C22: in every state reached by insert and clear, len() is the number of
\* values iteration yields, every value iteration yields is contained, no
\* value holes() yields is contained, num_holes() is the number of values
\* holes() yields, and right after clear() the list is falsy and iterates
\* nothing.
C22_Consistency ==
    LET items == RangeListIter(range_list)
        holes == RangeListHolesIter(range_list)
    IN  /\ RangeListLen(range_list) = Len(items)
        /\ \A i \in 1..Len(items) : RangeListContains(range_list, items[i])
        /\ \A i \in 1..Len(holes) : ~RangeListContains(range_list, holes[i])
        /\ RangeListNumHoles(range_list) = Len(holes)
        /\ last.op = "clear" => (~RangeListBool(range_list) /\ items = <<>>)

\* Two ranges with the holes 1, 2 and 3 between them.
C22_Witness ==
    /\ last.op = "insert"
    /\ range_list = <<Range(0, 0), Range(4, 5)>>
    /\ RangeListHolesIter(range_list) = <<1, 2, 3>>
    /\ RangeListNumHoles(range_list) = 3
    /\ RangeListLen(range_list) = 3

\* The bits serialize writes for the ranges: the compressed c_ushort count,
\* then 1 + 32 bits for a range with min = max and 1 + 32 + 32 otherwise.
RECURSIVE WireBitsFrom(_, _)
WireBitsFrom(ranges, i) ==
    IF i > Len(ranges) THEN 0
    ELSE (IF ranges[i].min = ranges[i].max THEN 33 ELSE 65) + WireBitsFrom(ranges, i + 1)

WireBits(ranges) ==
    WriteCompressed(NewWriteStream, Pack(c_ushort, Digits(c_ushort, Len(ranges)))).write_offset
    + WireBitsFrom(ranges, 1)

\* C23: deserialize(serialize(list)) has the same ranges in the same order as
\* the list built by inserts; serialize writes the compressed 16-bit count
\* and per range the bit min = max, the 32-bit min and, only when they
\* differ, the 32-bit max, and deserialize reads all of it; an insert into
\* the deserialized list gives what it gives on the original.
C23_WireRoundTrip ==
    [][last'.op = "round_trip" =>
        /\ last'.out.err = ""
        /\ range_list' = range_list
        /\ last'.out.stream.write_offset = WireBits(range_list)
        /\ last'.out.read_offset = WireBits(range_list)
        /\ \A item \in 0..MaxListValue :
                RangeListInsert(range_list', item) = RangeListInsert(range_list, item)]_vars

\* A list with a range of two values and a range of one went over the wire.
C23_Witness ==
    /\ last.op = "round_trip"
    /\ range_list = <<Range(0, 1), Range(3, 3)>>
    /\ last.out.stream.write_offset = 6 + 65 + 33
    /\ last.out.err = ""

(***************************************************************************)
(* test_num_holes and test_holes: the values of the tests are inserted     *)
(* into an empty list, in any order.                                       *)
(***************************************************************************)
ExampleValues == {1, 2, 4, 5, 8, 9, 15, 19}

NextRangeListExample ==
    \E item \in ExampleValues : steps < MaxExampleSteps /\ ListInsert(item)

SpecRangeListExample == Init /\ [][NextRangeListExample]_vars

\* C24 as stated: once 1, 2, 4, 5, 8, 9, 15 and 19 are inserted the list has
\* 3 ranges, num_holes() is 11 and holes() yields 3, 6, 7, 10..14, 16..18.
C24_ExampleThreeRanges ==
    inserted = ExampleValues =>
        /\ Len(range_list) = 3
        /\ RangeListNumHoles(range_list) = 11
        /\ RangeListHolesIter(range_list) = <<3, 6, 7, 10, 11, 12, 13, 14, 16, 17, 18>>

\* C24 amended: the list has the 5 ranges 1-2, 4-5, 8-9, 15 and 19;
\* num_holes() is 11 and holes() yields 3, 6, 7, 10..14, 16..18.
C24_ExampleFiveRanges ==
    inserted = ExampleValues =>
        /\ Len(range_list) = 5
        /\ range_list = <<Range(1, 2), Range(4, 5), Range(8, 9), Range(15, 15), Range(19, 19)>>
        /\ RangeListNumHoles(range_list) = 11
        /\ RangeListHolesIter(range_list) = <<3, 6, 7, 10, 11, 12, 13, 14, 16, 17, 18>>

\* All eight values are in, the last one inserted is 4.
C24_Witness ==
    /\ inserted = ExampleValues
    /\ last.op = "insert"
    /\ last.arg = 4
    /\ steps = 8

(***************************************************************************)
(* A WriteStream that is written to (single bits and compressed unsigned   *)
(* integers of 1, 2, 4 and 8 bytes), then a ReadStream over its bytes that *)
(* is read from.  The values are the digits in base 65536 of the int.      *)
(***************************************************************************)
CompressedInputs ==
    {[size |-> c_ubyte, value |-> <<9>>], [size |-> c_ubyte, value |-> <<179>>],
     [size |-> c_ushort, value |-> <<9>>], [size |-> c_ushort, value |-> <<308>>],
     [size |-> c_uint, value |-> <<9, 0>>], [size |-> c_uint, value |-> <<256, 0>>],
     [size |-> c_uint, value |-> <<0, 1>>], [size |-> c_uint, value |-> <<5, 33024>>],
     [size |-> c_ulonglong, value |-> <<9, 0, 0, 0>>],
     [size |-> c_ulonglong, value |-> <<256, 0, 0, 0>>]}

IntSizes == {c_ubyte, c_ushort, c_uint, c_ulonglong}

StreamWrite(w, op, size, value) ==
    /\ wstream' = w
    /\ written' = Append(written, [op |-> op, size |-> size, value |-> value,
                                   from |-> wstream.write_offset, to |-> w.write_offset])
    /\ UNCHANGED <<rstream, read_log, connVars, last, steps, listVars, replicaVars>>

\* stream.write(c_bit(bit))
StreamWriteBit(bit) ==
    /\ ~rstream.some
    /\ Len(written) < MaxStreamWrites
    /\ StreamWrite(WriteBit(wstream, bit), "write_bit", 0, <<IF bit THEN 1 ELSE 0>>)

\* stream.write_compressed(T(value)), T the _IntStruct of this size
StreamWriteCompressed(size, value) ==
    /\ ~rstream.some
    /\ Len(written) < MaxStreamWrites
    /\ StreamWrite(WriteCompressed(wstream, Pack(size, value)), "write_compressed", size, value)

\* ReadStream(bytes(stream))
StreamOpenRead ==
    /\ ~rstream.some
    /\ rstream' = NewReadStream(wstream.data)
    /\ UNCHANGED <<wstream, written, read_log, connVars, last, steps, listVars, replicaVars>>

CanRead == rstream.some /\ Len(read_log) < MaxStreamReads

StreamRead(read, op, arg, value) ==
    /\ rstream' = read.stream
    /\ read_log' = Append(read_log, [op |-> op, arg |-> arg, err |-> read.err,
                                     value |-> IF read.err = "" THEN value ELSE <<>>,
                                     from |-> rstream.read_offset,
                                     to |-> read.stream.read_offset])
    /\ UNCHANGED <<wstream, written, connVars, last, steps, listVars, replicaVars>>

\* stream.read(c_bit)
StreamReadBit ==
    /\ CanRead
    /\ LET read == ReadBit(rstream)
       IN  StreamRead(read, "read_bit", 1, <<IF read.value THEN 1 ELSE 0>>)

\* stream.read_bits(number_of_bits)
StreamReadBits(number_of_bits) ==
    /\ CanRead
    /\ LET read == ReadBits(rstream, number_of_bits)
       IN  StreamRead(read, "read_bits", number_of_bits, <<read.value>>)

\* stream.read(bytes, length=length)
StreamReadBytes(length) ==
    /\ CanRead
    /\ LET read == ReadBytes(rstream, length)
       IN  StreamRead(read, "read_bytes", length, read.value)

\* stream.read(T)
StreamReadInt(size) ==
    /\ CanRead
    /\ LET read == ReadInt(rstream, size)
       IN  StreamRead(read, "read_int", size, read.value)

\* stream.read_compressed(T)
StreamReadCompressed(size) ==
    /\ CanRead
    /\ LET read == ReadCompressed(rstream, size)
       IN  StreamRead(read, "read_compressed", size, read.value)

NextBitstream ==
    \/ \E bit \in BOOLEAN : StreamWriteBit(bit)
    \/ \E input \in CompressedInputs : StreamWriteCompressed(input.size, input.value)
    \/ StreamOpenRead
    \/ StreamReadBit
    \/ \E number_of_bits \in {4} : StreamReadBits(number_of_bits)
    \/ \E length \in {1, 2} : StreamReadBytes(length)
    \/ \E size \in {c_ubyte, c_ushort} : StreamReadInt(size)
    \/ \E size \in IntSizes : StreamReadCompressed(size)

SpecBitstream == Init /\ [][NextBitstream]_vars

\* The n-th write and the n-th read are at the same offset and of the same
\* type: the reads before it consumed what the writes before it wrote.
ReadsBack(i, j) ==
    /\ read_log[i].op = "read_compressed"
    /\ written[j].op = "write_compressed"
    /\ read_log[i].arg = written[j].size
    /\ read_log[i].from = written[j].from

\* C25: a compressed unsigned integer of 1, 2, 4 or 8 bytes written at any
\* bit offset is read back by read_compressed of the same type with the same
\* value, and the read consumes exactly the bits written.
C25_CompressedRoundTrip ==
    \A i \in 1..Len(read_log), j \in 1..Len(written) :
        ReadsBack(i, j) =>
            /\ read_log[i].err = ""
            /\ read_log[i].value = written[j].value
            /\ read_log[i].to = written[j].to

\* The number of bits of the encoding of the bytes b: a 1 bit for each zero
\* high byte, then a 0 bit and the remaining bytes; with all high bytes zero
\* a 1 bit and the low nibble, or a 0 bit and the low byte.
RECURSIVE CompressedBitsFrom(_, _)
CompressedBitsFrom(b, current_byte) ==
    IF current_byte > 0
    THEN IF b[current_byte + 1] = 0 THEN 1 + CompressedBitsFrom(b, current_byte - 1)
         ELSE 1 + 8 * (current_byte + 1)
    ELSE IF b[1] < 16 THEN 1 + 4 ELSE 1 + 8

\* The encoding has the stated length, and c_ubyte and c_ushort are read
\* back with their value.
CompressedEncoding ==
    /\ \A j \in 1..Len(written) :
            written[j].op = "write_compressed" =>
                written[j].to - written[j].from
                    = CompressedBitsFrom(Pack(written[j].size, written[j].value),
                                         written[j].size - 1)
    /\ \A i \in 1..Len(read_log), j \in 1..Len(written) :
            (ReadsBack(i, j) /\ written[j].size \in {c_ubyte, c_ushort}) =>
                /\ read_log[i].err = ""
                /\ read_log[i].value = written[j].value
                /\ read_log[i].to = written[j].to

\* The read e would go past the end of the data: it asks for more bits than
\* remain; a compressed read, whose length the data decides, ran out of data.
BitsAsked(e) ==
    IF e.op = "read_bit" THEN 1
    ELSE IF e.op = "read_bits" THEN e.arg
    ELSE 8 * e.arg

PastEnd(e) ==
    IF e.op = "read_compressed" THEN e.err # ""
    ELSE 8 * Len(rstream.data) - e.from < BitsAsked(e)

\* C26: every read that would go past the end of the buffer (bytes, aligned
\* or shifted; fixed-width integer; single bit; N bits; compressed integer)
\* fails with EOFError and leaves read_offset unchanged.
C26_ShortRead ==
    \A i \in 1..Len(read_log) :
        PastEnd(read_log[i]) =>
            /\ read_log[i].err = "EOFError"
            /\ read_log[i].to = read_log[i].from

\* What holds of the short reads: none returns data, a read that returns
\* stays inside the data, and the reads of bytes and of fixed-width
\* integers fail with EOFError and leave read_offset unchanged.
ShortReadOfBytes ==
    \A i \in 1..Len(read_log) :
        LET e == read_log[i]
        IN  /\ PastEnd(e) => e.err # ""
            /\ e.err = "" => e.to <= 8 * Len(rstream.data)
            /\ (PastEnd(e) /\ e.op \in {"read_bytes", "read_int"}) =>
                    (e.err = "EOFError" /\ e.to = e.from)

(***************************************************************************)
(* replicamanager.py: a ReplicaManager, the replicas of the tests          *)
(* (TestReplica) and two connections.  _network_ids is the sequence of     *)
(* the entries of the dict in the order of the dict; a call gives the      *)
(* manager after it, the conn.send calls it made and the exception that    *)
(* left it, if any.                                                        *)
(***************************************************************************)
ReplicaManagerConstruction == 36
ReplicaManagerDestruction == 37
ReplicaManagerSerialize == 39

Replicas == {"a", "b"}
ReplicaConnections == {"c1", "c2"}

\* TestReplica.write_construction writes b"construction", serialize b"serialize"
TestReplicaConstruction == <<99, 111, 110, 115, 116, 114, 117, 99, 116, 105, 111, 110>>
TestReplicaSerialize == <<115, 101, 114, 105, 97, 108, 105, 122, 101>>

ReplicaState ==
    [participants |-> participants, network_ids |-> network_ids,
     current_network_id |-> current_network_id, sent |-> <<>>, raised |-> ""]

HasNetworkId(ids, obj) == \E i \in 1..Len(ids) : ids[i].obj = obj
NetworkIdOf(ids, obj) == ids[CHOOSE i \in 1..Len(ids) : ids[i].obj = obj].id
SetNetworkId(ids, obj, id) ==
    IF HasNetworkId(ids, obj)
    THEN [i \in 1..Len(ids) |-> IF ids[i].obj = obj THEN [obj |-> obj, id |-> id] ELSE ids[i]]
    ELSE Append(ids, [obj |-> obj, id |-> id])
DelNetworkId(ids, obj) == SelectSeq(ids, LAMBDA entry : entry.obj # obj)

\* The elements of a set in the order its iteration happens to have.
RECURSIVE SeqOfSet(_)
SeqOfSet(S) ==
    IF S = {} THEN <<>>
    ELSE LET x == CHOOSE y \in S : TRUE IN <<x>> \o SeqOfSet(S \ {x})

ConstructionMessage(network_id) ==
    LET id == WriteBytes(NewWriteStream, Pack(c_ubyte, <<ReplicaManagerConstruction>>))
        bit == WriteBit(id, TRUE)
        nid == WriteBytes(bit, Pack(c_ushort, Digits(c_ushort, network_id)))
    IN  WriteBytes(nid, TestReplicaConstruction).data

SerializeMessage(network_id) ==
    LET id == WriteBytes(NewWriteStream, Pack(c_ubyte, <<ReplicaManagerSerialize>>))
        nid == WriteBytes(id, Pack(c_ushort, Digits(c_ushort, network_id)))
    IN  WriteBytes(nid, TestReplicaSerialize).data

DestructionMessage(network_id) ==
    LET id == WriteBytes(NewWriteStream, Pack(c_ubyte, <<ReplicaManagerDestruction>>))
    IN  WriteBytes(id, Pack(c_ushort, Digits(c_ushort, network_id))).data

\* for conn in recipients: conn.send(out)
ReplicaSend(rm, recipients, obj, out) ==
    [rm EXCEPT !.sent = rm.sent \o [i \in 1..Len(recipients) |->
                                        [conn |-> recipients[i], obj |-> obj, data |-> out]]]

\* Every participant is a recipient, whatever the argument.
Recipients_Participants(rm, recipients) == SeqOfSet(rm.participants)

\* if recipients is None: recipients = self._participants
Recipients(rm, recipients) ==
    IF recipients.some THEN recipients.val ELSE SeqOfSet(rm.participants)

\* _construct
ManagerConstruct(rm, obj, new, recipients) ==
    LET reg == IF new
               THEN [rm EXCEPT !.network_ids = SetNetworkId(rm.network_ids, obj,
                                                            rm.current_network_id),
                               !.current_network_id = rm.current_network_id + 1]
               ELSE rm
    IN  IF ~HasNetworkId(reg.network_ids, obj) THEN [reg EXCEPT !.raised = "KeyError"]
        ELSE ReplicaSend(reg, Recipients(reg, recipients), obj,
                         ConstructionMessage(NetworkIdOf(reg.network_ids, obj)))

RECURSIVE AddParticipantFrom(_, _, _)
AddParticipantFrom(rm, conn, i) ==
    IF i > Len(rm.network_ids) \/ rm.raised # "" THEN rm
    ELSE AddParticipantFrom(
            ManagerConstruct(rm, rm.network_ids[i].obj, FALSE,
                                    [some |-> TRUE, val |-> <<conn>>]),
            conn, i + 1)

\* add_participant
ManagerAddParticipant(rm, conn) ==
    AddParticipantFrom([rm EXCEPT !.participants = rm.participants \cup {conn}], conn, 1)

\* serialize
ManagerSerialize(rm, obj) ==
    IF ~HasNetworkId(rm.network_ids, obj) THEN [rm EXCEPT !.raised = "KeyError"]
    ELSE ReplicaSend(rm, SeqOfSet(rm.participants), obj,
                     SerializeMessage(NetworkIdOf(rm.network_ids, obj)))

\* destruct
ManagerDestruct(rm, obj) ==
    IF ~HasNetworkId(rm.network_ids, obj) THEN [rm EXCEPT !.raised = "KeyError"]
    ELSE [ReplicaSend(rm, SeqOfSet(rm.participants), obj,
                      DestructionMessage(NetworkIdOf(rm.network_ids, obj)))
            EXCEPT !.network_ids = DelNetworkId(rm.network_ids, obj)]

\* The participant stays.
ManagerOnConnClose_Kept(rm, conn) == rm

\* _on_conn_close, the listener of ConnectionEvent.Close
ManagerOnConnClose(rm, conn) ==
    [rm EXCEPT !.participants = rm.participants \ {conn}]

ReplicaCall(rm, op, arg) ==
    /\ participants' = rm.participants
    /\ network_ids' = rm.network_ids
    /\ current_network_id' = rm.current_network_id
    /\ last' = [op |-> op, arg |-> arg, out |-> [sent |-> rm.sent, raised |-> rm.raised]]
    /\ steps' = steps + 1
    /\ UNCHANGED <<connVars, listVars, streamVars>>

AddParticipant(conn) ==
    /\ ReplicaCall(ManagerAddParticipant(ReplicaState, conn), "add_participant",
                   [conn |-> conn])
    /\ closed_participants' = closed_participants \ {conn}
    /\ UNCHANGED constructed

\* construct(obj, new)
Construct(obj, new) ==
    LET rm == ManagerConstruct(ReplicaState, obj, new, None)
    IN  /\ ReplicaCall(rm, "construct", [obj |-> obj, new |-> new])
        /\ constructed' = IF new THEN constructed \cup {obj} ELSE constructed
        /\ UNCHANGED closed_participants

Serialize(obj) ==
    /\ ReplicaCall(ManagerSerialize(ReplicaState, obj), "serialize", [obj |-> obj])
    /\ UNCHANGED <<constructed, closed_participants>>

Destruct(obj) ==
    /\ ReplicaCall(ManagerDestruct(ReplicaState, obj), "destruct", [obj |-> obj])
    /\ constructed' = constructed \ {obj}
    /\ UNCHANGED closed_participants

\* dispatcher.dispatch(ConnectionEvent.Close, conn)
ConnClose(conn) ==
    /\ ReplicaCall(ManagerOnConnClose(ReplicaState, conn), "close", [conn |-> conn])
    /\ closed_participants' = closed_participants \cup {conn}
    /\ UNCHANGED constructed

NextReplica ==
    \/ \E conn \in ReplicaConnections : steps < MaxReplicaSteps /\ AddParticipant(conn)
    \/ \E obj \in Replicas, new \in BOOLEAN : steps < MaxReplicaSteps /\ Construct(obj, new)
    \/ \E obj \in Replicas : steps < MaxReplicaSteps /\ Serialize(obj)
    \/ \E obj \in Replicas : steps < MaxReplicaSteps /\ Destruct(obj)
    \/ \E conn \in ReplicaConnections : steps < MaxReplicaSteps /\ ConnClose(conn)

SpecReplica == Init /\ [][NextReplica]_vars

\* The conn.send calls of the last call: (conn, obj) pairs, and how many
\* times a pair occurs.
SentTo(sent) == {<<sent[i].conn, sent[i].obj>> : i \in 1..Len(sent)}
SentCount(sent, conn, obj) ==
    Cardinality({i \in 1..Len(sent) : sent[i].conn = conn /\ sent[i].obj = obj})
AllConstructions(sent, ids) ==
    \A i \in 1..Len(sent) :
        /\ HasNetworkId(ids, sent[i].obj)
        /\ sent[i].data = ConstructionMessage(NetworkIdOf(ids, sent[i].obj))
        /\ sent[i].data[1] = ReplicaManagerConstruction

\* C27: add_participant(conn) sends to conn, and to nobody else, exactly one
\* construction message for each replica constructed and not destructed
\* since, and none for a destructed one; a construct call that registers or
\* finds the replica sends its construction message exactly once to each
\* current participant (nothing without participants); serialize and
\* destruct of a replica that was destructed (or never constructed) raise
\* KeyError and send nothing.
C27_LateJoin ==
    [][/\ last'.op = "add_participant" =>
            /\ last'.out.raised = ""
            /\ SentTo(last'.out.sent) = {<<last'.arg.conn, obj>> : obj \in constructed}
            /\ \A obj \in constructed :
                    SentCount(last'.out.sent, last'.arg.conn, obj) = 1
            /\ AllConstructions(last'.out.sent, network_ids')
       /\ (last'.op = "construct" /\ last'.out.raised = "") =>
            /\ SentTo(last'.out.sent) = {<<conn, last'.arg.obj>> : conn \in participants}
            /\ \A conn \in participants :
                    SentCount(last'.out.sent, conn, last'.arg.obj) = 1
            /\ AllConstructions(last'.out.sent, network_ids')
       /\ (last'.op = "construct" /\ last'.arg.new) => last'.out.raised = ""
       /\ (last'.op \in {"serialize", "destruct"} /\ last'.arg.obj \notin constructed) =>
            /\ last'.out.raised = "KeyError"
            /\ last'.out.sent = <<>>]_vars

\* A connection joins after two replicas were constructed and one of them
\* destructed: it gets the construction of the other, the bytes of
\* test_delayed_add.
C27_Witness ==
    /\ last.op = "add_participant"
    /\ constructed = {"a"}
    /\ current_network_id = 2
    /\ Len(last.out.sent) = 1
    /\ last.out.sent[1] = [conn |-> last.arg.conn, obj |-> "a",
                           data |-> <<36, 128, 0, 49, 183, 183, 57, 186, 57, 58, 177, 186,
                                      52, 183, 183, 0>>]

\* C28: a connection for which the Close event was dispatched after it was
\* added is no participant (until it is added again), and no construct,
\* serialize or destruct call sends a message to it.
C28_ClosedNotParticipant ==
    /\ [](closed_participants \cap participants = {})
    /\ [][last'.op \in {"construct", "serialize", "destruct"} =>
            \A i \in 1..Len(last'.out.sent) :
                last'.out.sent[i].conn \notin closed_participants]_vars

\* Two participants, one is closed, and the construct that follows sends to
\* the other one only.
C28_Witness ==
    /\ last.op = "construct"
    /\ closed_participants = {"c1"}
    /\ participants = {"c2"}
    /\ Len(last.out.sent) = 1
    /\ last.out.sent[1].conn = "c2"

(***************************************************************************)
(* CWNDCalc.update on the calculator of the connection, with arguments     *)
(* drawn from small sets, and its caller: _handle_datagram_header on ACK   *)
(* datagrams, after sends that count in packets_sent.                      *)
(***************************************************************************)
PacketsSentValues == {0, 1, 2, 4}
NumAcksValues == {1, 2, 3}
NumHolesValues == {0, 1}
CwndAckLists == {<<Range(0, 0)>>, <<Range(1, 1)>>}

\* self._cwnd_calc.update(packets_sent, num_acks, num_holes)
CwndUpdate(sent, num_acks, num_holes) ==
    /\ cwnd_calc' = CWNDCalcUpdate(cwnd_calc, sent, num_acks, num_holes)
    /\ last' = [op |-> "cwnd_update",
                arg |-> [packets_sent |-> sent, num_acks |-> num_acks,
                         num_holes |-> num_holes],
                out |-> [NoOutput EXCEPT !.raised =
                            CWNDCalcUpdateRaises(cwnd_calc, sent, num_acks, num_holes)]]
    /\ steps' = steps + 1
    /\ UNCHANGED <<timeVars, recvVars, split_packet_id, rto_calc, packets_sent,
                   send_message_number_index, sequenced_write_index, ordered_write_index,
                   sends, resends, resend_timers, connected, others, delivered,
                   close_events, tx_count, acked, listVars, streamVars, replicaVars>>

NextCwnd ==
    \/ \E sent \in PacketsSentValues, num_acks \in NumAcksValues, num_holes \in NumHolesValues :
            steps < MaxCwndSteps /\ CwndUpdate(sent, num_acks, num_holes)
    \/ steps < MaxCwndSteps /\ Send(<<UserPacket, steps>>, Reliable)
    \/ \E ranges \in CwndAckLists :
            steps < MaxCwndSteps /\ HandleDatagram(AcksDatagram(0, ranges))

SpecCwnd == Init /\ [][NextCwnd]_vars

(***************************************************************************)
(* The calculator under lasting loss: every update reports holes.          *)
(***************************************************************************)
LossPacketsSent == {0, 4}
LossAcks == {1, 3}
LossHoles == {1, 2}

NextCwndLoss ==
    \E sent \in LossPacketsSent, num_acks \in LossAcks, num_holes \in LossHoles :
        steps < MaxLossSteps /\ CwndUpdate(sent, num_acks, num_holes)

SpecCwndLoss == Init /\ [][NextCwndLoss]_vars

\* What update is to give, from cwnd c, threshold s and the arguments.
CwndExpected(c, s, sent, num_acks, num_holes) ==
    IF num_holes > 0
    THEN [cwnd |-> FloatDiv(c, FloatOfInt(2)), ssthresh |-> FloatDiv(c, FloatOfInt(2))]
    ELSE IF ~FloatLess(FloatOfInt(sent), c)
    THEN [cwnd |-> IF FloatLess(s, FloatOfInt(num_acks))
                   THEN FloatAdd(c, FloatDiv(FloatOfInt(num_acks), c))
                   ELSE FloatAdd(c, FloatOfInt(num_acks)),
          ssthresh |-> s]
    ELSE [cwnd |-> c, ssthresh |-> s]

\* The rule of the update, its example, and the reset by the caller.
CwndUpdateRule ==
    /\ [](last.op = "init" => cwnd_calc = [cwnd |-> FloatOfInt(1), ssthresh |-> FInf])
    /\ [][(last'.op = "cwnd_update" /\ ~last'.out.raised) =>
            /\ cwnd_calc' = CwndExpected(cwnd_calc.cwnd, cwnd_calc.ssthresh,
                                         last'.arg.packets_sent, last'.arg.num_acks,
                                         last'.arg.num_holes)
            /\ (/\ cwnd_calc = [cwnd |-> FloatOfInt(4), ssthresh |-> FInf]
                /\ last'.arg.packets_sent = 4
                /\ last'.arg.num_acks = 3) =>
                    IF last'.arg.num_holes = 0
                    THEN cwnd_calc' = [cwnd |-> FloatOfInt(7), ssthresh |-> FInf]
                    ELSE cwnd_calc' = [cwnd |-> FloatOfInt(2), ssthresh |-> FloatOfInt(2)]]_vars
    /\ [][(/\ last'.op = "handle_datagram"
           /\ last'.arg.has_acks
           /\ ~last'.out.raised) => packets_sent' = 0]_vars

\* C29: from cwnd = 1 and ssthresh = infinity, update with holes sets
\* ssthresh and cwnd to cwnd / 2; without holes and with packets_sent >= cwnd
\* it adds num_acks / cwnd when num_acks > ssthresh and num_acks otherwise;
\* else nothing changes; the caller sets packets_sent to 0 afterwards.  From
\* cwnd = 4, ssthresh = infinity, packets_sent = 4, num_acks = 3: cwnd = 7
\* without holes, cwnd = ssthresh = 2 with one.  cwnd is positive after any
\* sequence of updates.
C29_CongestionWindow ==
    /\ CwndUpdateRule
    /\ [](FloatLess(FZero, cwnd_calc.cwnd))

\* The window of 4 was halved by an update with a hole.
CwndHalved ==
    /\ last.op = "cwnd_update"
    /\ last.arg = [packets_sent |-> 4, num_acks |-> 3, num_holes |-> 1]
    /\ cwnd_calc = [cwnd |-> FloatOfInt(2), ssthresh |-> FloatOfInt(2)]
    /\ steps = 3

(***************************************************************************)
(* RTOCalc.update on the calculator of the connection, with round trip     *)
(* times drawn from a small set (in seconds, as fractions).                *)
(***************************************************************************)
RttSamples == {<<1, 5>>, <<1, 2>>, <<3, 1>>, <<0, 1>>, <<-1, 1>>}

\* self._rto_calc.update(rtt)
RtoUpdate(rtt) ==
    /\ rto_calc' = RTOCalcUpdate(rto_calc, rtt)
    /\ last' = [op |-> "rto_update", arg |-> rtt, out |-> NoOutput]
    /\ steps' = steps + 1
    /\ UNCHANGED <<timeVars, recvVars, split_packet_id, cwnd_calc, packets_sent,
                   send_message_number_index, sequenced_write_index, ordered_write_index,
                   sends, resends, resend_timers, connected, others, delivered,
                   close_events, tx_count, acked, listVars, streamVars, replicaVars>>

NextRto == \E rtt \in RttSamples : steps < MaxRtoSteps /\ RtoUpdate(rtt)

SpecRto == Init /\ [][NextRto]_vars

\* C30: a sample taken with srtt = -1 sets srtt = rtt and rtt_var = rtt / 2;
\* any other sets rtt_var = 3/4 rtt_var + 1/4 |srtt - rtt| with the old srtt,
\* then srtt = 7/8 srtt + 1/8 rtt; each update sets rto = max(1, srtt +
\* 4 rtt_var); rto is never below 1 and is 1 before any sample; the single
\* sample 0.2 gives srtt = 0.2, rtt_var = 0.1, rto = 1.
C30_RetransmissionTimeout ==
    /\ [](RLeq(Rat(1), rto_calc.rto))
    /\ [](last.op = "init" => rto_calc.rto = Rat(1))
    /\ [][last'.op = "rto_update" =>
            LET rtt == last'.arg
            IN  /\ IF rto_calc.srtt = Rat(-1)
                   THEN /\ rto_calc'.srtt = rtt
                        /\ rto_calc'.rtt_var = RDiv(rtt, Rat(2))
                   ELSE /\ rto_calc'.rtt_var =
                                RAdd(RMul(<<3, 4>>, rto_calc.rtt_var),
                                     RMul(<<1, 4>>, RAbs(RSub(rto_calc.srtt, rtt))))
                        /\ rto_calc'.srtt =
                                RAdd(RMul(<<7, 8>>, rto_calc.srtt), RMul(<<1, 8>>, rtt))
                /\ rto_calc'.rto = RMax(Rat(1), RAdd(rto_calc'.srtt,
                                                     RMul(Rat(4), rto_calc'.rtt_var)))
                /\ (steps = 0 /\ rtt = <<1, 5>>) =>
                        rto_calc' = [srtt |-> <<1, 5>>, rtt_var |-> <<1, 10>>, rto |-> Rat(1)]]_vars

\* The second sample, 3 s after a first of 0.2 s, lifts rto above 1.
C30_Witness ==
    /\ last.op = "rto_update"
    /\ last.arg = <<3, 1>>
    /\ steps = 2
    /\ rto_calc = [srtt |-> <<11, 20>>, rtt_var |-> <<31, 40>>, rto |-> <<73, 20>>]

(***************************************************************************)
(* Message numbers on the wire.                                            *)
(***************************************************************************)
\* The packets of the datagrams the handler handed to sendto.
RECURSIVE PacketsOf(_, _)
PacketsOf(datagrams, i) ==
    IF i > Len(datagrams) THEN <<>>
    ELSE datagrams[i].packets \o PacketsOf(datagrams, i + 1)

\* C31: a datagram that carries a message number transmitted before carries
\* the packet that number was given to; every message number the counter has
\* given out has been transmitted (a packet that was not transmitted has
\* none); the numbers transmitted are 0, 1, 2, ... without gaps.
C31_MessageNumbers ==
    /\ [][now' = now =>
            \A i \in 1..Len(PacketsOf(last'.out.sent, 1)) :
                LET p == PacketsOf(last'.out.sent, 1)[i]
                IN  TxCount(tx_count, p.message_number) > 0 =>
                        /\ p.message_number \in DOMAIN resends
                        /\ resends[p.message_number].packet = p]_vars
    /\ [](\A m \in 0..(send_message_number_index - 1) : TxCount(tx_count, m) > 0)
    /\ [](DOMAIN tx_count = 0..(Cardinality(DOMAIN tx_count) - 1))

(***************************************************************************)
(* The receiver of ReliableOrdered packets, under SpecOrdered.             *)
(***************************************************************************)
\* The ordering indices of the payloads dispatched as Receive events.
DeliveredIndices == {delivered[k][2] : k \in 1..Len(delivered)}

\* C32: after every handled datagram ordered_read_index is the smallest
\* ordering index not yet delivered upstream (every index below it has been
\* delivered, it has not), and every key of out_of_order_packets is greater
\* than ordered_read_index.
C32_ReadIndexInvariant ==
    /\ \A i \in 0..(ordered_read_index - 1) : i \in DeliveredIndices
    /\ ordered_read_index \notin DeliveredIndices
    /\ \A k \in DOMAIN out_of_order_packets : k > ordered_read_index

\* Index 0 was delivered, index 1 is awaited and two later packets are held.
C32_Witness ==
    /\ ordered_read_index = 1
    /\ DOMAIN out_of_order_packets = {2, 3}
    /\ last.op = "handle_datagram"

(***************************************************************************)
(* The lifetime of the entries of split_packet_queue, under SpecFragments. *)
(***************************************************************************)
\* C33: split_packet_queue has an entry for a split payload only while that
\* payload is incomplete: every entry has an empty slot, there is no entry
\* for a payload that has been delivered, and none on a closed connection.
C33_SplitQueueLifetime ==
    /\ \A id \in DOMAIN split_packet_queue :
            /\ \E i \in 1..Len(split_packet_queue[id]) : ~split_packet_queue[id][i].some
            /\ \A k \in 1..Len(delivered) : delivered[k] # SplitPayload(id)
    /\ ~connected => split_packet_queue = EmptyDict

(***************************************************************************)
(* The congestion window on the send path: the application sends, the peer *)
(* acknowledges (with and without holes) and sends a packet that is to be  *)
(* acknowledged, the timers fire and time passes.                          *)
(***************************************************************************)
WindowReliabilities == {Unreliable, Reliable}
WindowAckLists == {<<Range(0, 0)>>, <<Range(0, 0), Range(2, 2)>>}
WindowTickSteps == {2000}

NextWindow ==
    \/ \E reliability \in WindowReliabilities :
            steps < MaxWindowSteps /\ connected /\ Send(<<UserPacket, steps>>, reliability)
    \/ \E ranges \in WindowAckLists :
            steps < MaxWindowSteps /\ HandleDatagram(AcksDatagram(0, ranges))
    \/ \E d \in {PacketDatagram(<<AckedPacket(0, Reliable)>>)} :
            steps < MaxWindowSteps /\ HandleDatagram(d)
    \/ \E handle \in resend_timers : ResendTimer(handle)
    \/ SendAcksOnly
    \/ \E ms \in WindowTickSteps : now + ms <= MaxNow /\ Tick(ms)

SpecWindow == Init /\ [][NextWindow]_vars

\* A step in which a handler of the connection ran.
HandlerRan == now' = now /\ vars' # vars

RECURSIVE SumCounts(_, _)
SumCounts(counts, keys) ==
    IF keys = {} THEN 0
    ELSE LET k == CHOOSE x \in keys : TRUE
         IN  counts[k] + SumCounts(counts, keys \ {k})

\* The number of packet datagrams handed to sendto so far.
Transmitted(counts) == SumCounts(counts, DOMAIN counts)

\* n <= ceil(cwnd)
WithinWindow(n, cwnd) == n = 0 \/ FloatLess(FloatOfInt(n - 1), cwnd)

\* C34: packets_sent counts every packet datagram transmitted (first
\* transmission or retransmission, any reliability; ACK-only datagrams are
\* not counted) and is set to 0 only when a datagram with ACKs is handled; a
\* packet datagram is transmitted only while packets_sent < cwnd; so at most
\* ceil(cwnd) packet datagrams are transmitted between two handled ACK
\* datagrams.
C34_WindowBound ==
    /\ [](WithinWindow(packets_sent, cwnd_calc.cwnd))
    /\ [][HandlerRan =>
            LET n == Len(PacketsOf(last'.out.sent, 1))
                reset == last'.op = "handle_datagram" /\ last'.arg.has_acks
            IN  /\ Transmitted(tx_count') = Transmitted(tx_count) + n
                /\ packets_sent' = (IF reset THEN 0 ELSE packets_sent) + n
                /\ n > 0 => FloatLess(FloatOfInt(packets_sent' - 1), cwnd_calc'.cwnd)
                /\ last'.op = "send_acks_only" => n = 0 /\ packets_sent' = packets_sent]_vars

\* The window is 2, two packets were transmitted since the last ACK, and the
\* third send was held back.
C34_Witness ==
    /\ cwnd_calc.cwnd = FloatOfInt(2)
    /\ packets_sent = 2
    /\ last.op = "send"
    /\ last.out.sent = <<>>

(***************************************************************************)
(* Arrivals of every kind.  The peer sent two ReliableOrdered packets      *)
(* (numbers 0 and 1), a Reliable payload split into two fragments (numbers *)
(* 3 and 4), an unsplit Reliable packet (5), an Unreliable packet (6) and  *)
(* an UnreliableSequenced packet (7), and retransmits; the datagrams       *)
(* arrive in any order, any number of times, and the ACK flush timer runs. *)
(***************************************************************************)
MixedSplitPayload == <<UserPacket, 7, 6, 5>>
MixedSplitParts == Chunks(MixedSplitPayload, 0, 2)
MixedFragment(index) ==
    Packet(3 + index, Reliable, None,
           SplitInfo(2, index, Len(MixedSplitParts)), MixedSplitParts[index + 1])

MixedPackets ==
    {OrderedPacket(0), OrderedPacket(1), MixedFragment(0), MixedFragment(1), ReliablePacket(5),
     Packet(6, Unreliable, None, NoSplit, <<UserPacket, 6>>),
     Packet(7, UnreliableSequenced, Some(0), NoSplit, <<UserPacket, 7>>)}

MixedDatagrams ==
    {PacketDatagram(<<p>>) : p \in MixedPackets}
    \cup {PacketDatagram(<<MixedFragment(1), MixedFragment(0)>>)}

NextMixed ==
    \/ \E d \in MixedDatagrams : steps < MaxMixedArrivals /\ HandleDatagram(d)
    \/ \E ms \in {SendAcksDelayMs} : now < SendAcksDelayMs /\ Tick(ms)
    \/ SendAcksOnly

SpecMixed == Init /\ [][NextMixed]_vars

\* The message numbers of the packets of datagram d sent with one of the
\* reliabilities kinds.
NumbersOfKinds(d, kinds) ==
    {d.packets[i].message_number : i \in {j \in 1..Len(d.packets) : d.packets[j].reliability \in kinds}}

\* C35: the message number of every received Reliable or ReliableOrdered
\* packet is put into acks, also when the packet is dropped as a duplicate,
\* buffered as too early or is a fragment of an incomplete payload;
\* Unreliable and UnreliableSequenced packets add nothing to acks.
C35_DuplicatesAcked ==
    [][(HandlerRan /\ last'.op = "handle_datagram" /\ ~last'.out.raised) =>
            /\ RangeListItems(acks') = RangeListItems(acks) \cup NumbersOfKinds(last'.arg, {Reliable, ReliableOrdered})
            /\ NumbersOfKinds(last'.arg, {Reliable, ReliableOrdered}) # {} => send_acks_handle'.some]_vars

\* Packet 5 arrived a second time: it was dropped as a duplicate, and its
\* number is in acks.
C35_Witness ==
    /\ last.op = "handle_datagram"
    /\ last.arg = PacketDatagram(<<ReliablePacket(5)>>)
    /\ last.out.recv = <<>>
    /\ delivered = <<ReliablePayload(5)>>
    /\ RangeListItems(acks) = {5}

\* The Receive events so far that carried the payload of ordering index i.
DispatchCount(i) == Cardinality({k \in 1..Len(delivered) : delivered[k] = OrderedPayload(i)})

\* C36: over any arrival sequence of ReliableOrdered packets the payload of
\* each ordering index is dispatched as a Receive event at most once.
C36_OrderedAtMostOnce == \A i \in 0..MaxOrderIndex : DispatchCount(i) <= 1

\* The Receive events so far that carried the reassembled split payload.
SplitDeliveries == Cardinality({k \in 1..Len(delivered) : delivered[k] = MixedSplitPayload})

\* C37: when the fragments of a split Reliable payload are retransmitted and
\* the second copies arrive in another order than the first, so that another
\* fragment completes the reassembly, the payload is still delivered once.
C37_SplitAtMostOnce == SplitDeliveries <= 1

\* C38: for each connection the Close event is dispatched at most once, over
\* any interleaving of handled datagrams and timers, and the transport's
\* listener of the Close event never fails because the address is no longer
\* in the map.
C38_CloseAtMostOnce ==
    /\ close_events <= 1
    /\ ~(last.out.closes > 0 /\ last.out.raised)

(***************************************************************************)
(* Reconnection.  The connection object made for Address sends, the peer   *)
(* disconnects and asks for a connection again, for which the transport    *)
(* makes a new connection object; the timers of the first object go on     *)
(* running.  ~connected /\ Address \in others is the state in which the    *)
(* map holds the new object for Address.                                   *)
(***************************************************************************)
ReconnectDatagrams ==
    {PacketDatagram(<<UnreliablePacket(<<UserPacket, 0>>)>>),
     PacketDatagram(<<UnreliablePacket(<<DisconnectionNotification>>)>>)}

NextReconnect ==
    \/ \E data \in {<<OpenConnectionRequest, 0>>} :
            steps < MaxReconnectSteps /\ RawDatagram(data, Address)
    \/ \E d \in ReconnectDatagrams :
            steps < MaxReconnectSteps /\ DatagramReceived(d, Address)
    \/ \E reliability \in {Reliable} :
            steps < MaxReconnectSteps /\ connected /\ Send(<<UserPacket, steps>>, reliability)
    \/ \E handle \in resend_timers : ResendTimer(handle)
    \/ CheckClose
    \/ \E ms \in LifeTickSteps : now + ms <= MaxLifeNow /\ Tick(ms)

SpecReconnect == Init /\ [][NextReconnect]_vars

\* The map holds a new connection object for Address, made after the first
\* one was closed.
Reconnected == ~connected /\ Address \in others

\* C39: once a new connection object for the address has replaced a closed
\* one, no timer of the old object (its probe, its retransmission timers)
\* removes the new object from the transport's map or sends a datagram.
C39_ReconnectIdentity ==
    [][(HandlerRan /\ Reconnected /\ last'.op \in {"check_close", "resend_timer"}) =>
            /\ Address \in others'
            /\ last'.out.sent = <<>>]_vars

\* The payload of a ConnectionRequest with the server's password.
AcceptedRequest == <<ConnectionRequest>> \o IncomingPassword

\* C40: a UserPacket payload is forwarded to the Message.UserPacket
\* listeners only for a connection that has sent a ConnectionRequest with
\* the correct password before.
C40_PasswordGate ==
    \A k \in 1..Len(delivered) :
        delivered[k][1] = UserPacket => \E j \in 1..(k - 1) : delivered[j] = AcceptedRequest
====
